---- MODULE Spec2Model ----
(***************************************************************************)
(* A model of the cleaning pass of LTR_reporting (src/data_processor.py):  *)
(* the column normalizer, the missing-value resolver, the other stages,    *)
(* the source-file lookup and the driver main().                           *)
(*                                                                         *)
(* A string is a sequence of symbols, each symbol a piece of text that     *)
(* the program never looks inside: a bracket, a file extension, the text   *)
(* of a table qualifier, a field name.  These texts hold no bracket and    *)
(* no text ends with the last letter of a qualifier text other than that   *)
(* qualifier itself, so a literal of the program occurs in a real name     *)
(* exactly where its symbols occur in the symbol string.                   *)
(*                                                                         *)
(* A table (DataFrame) is a record [columns, dtypes, rows]: the column     *)
(* names in order, the pandas dtype of each column ("number", "object",    *)
(* "datetime64" or "datetime64tz") and the rows, each the sequence of its  *)
(* cells in column order.  A cell is a sequence: <<>> is the null (NaN,    *)
(* None, NaT), <<n, d>> is the number n/d in lowest terms, <<s>> is the    *)
(* text s and <<y, m, d>> is the timestamp of that calendar day.           *)
(***************************************************************************)
EXTENDS Integers, Sequences, FiniteSets, TLC

VARIABLES
    passes,            \* column normalizer: the column name before and after each pass
    mv_pc,             \* missing-value resolver: "idle", "call" or "returned"
    mv_in,             \* missing-value resolver: the table passed in
    mv_strategy,       \* missing-value resolver: the strategy argument
    mv_out,            \* missing-value resolver: the table returned
    listing,           \* load_csv_files: what os.listdir returns
    load_pc,           \* load_csv_files: position in the function
    epics_file,        \* load_csv_files: the entry chosen for each slot, <<>> = None
    maintenance_file,
    utilization_file,
    missing_files,     \* load_csv_files: the names listed in the FileNotFoundError
    load_message,      \* load_csv_files: which except clause printed
    load_result,       \* load_csv_files: "none" (None, None, None) or "frames"
    pc,                \* main: position in the function
    dir_exists,        \* main: whether the output directory exists on disk
    output_path,       \* main: the value create_output_directory returned
    main_missing,      \* main: the logical names no entry of the directory matched
    load_returned,     \* main: "unset", "none" or "frames"
    frames,            \* main: epics_df, maintenance_df and utilization_df
    correlation,       \* main: what calculate_correlation_metrics returned
    correlation_df,    \* main: the joined weekly table it returned, when it returned one
    correlation_matrix,\* main: the correlation matrix it returned, when it returned one
    raw,               \* main: the three tables as load_csv_files returned them
    passed,            \* main: the tables passed to the last stage call, as the call left them
    file_content,      \* main: the content of each output file written by this run
    written,           \* main: the output files written by this run, in order
    printed,           \* main: the messages of the model printed so far, in order
    calls,             \* main: the stage calls made so far, in order
    corr_pc,           \* correlator: position in the two bucketing calls and the function
    corr_frames,       \* correlator: maintenance_df and utilization_df, as bucketed so far
    maintenance_weekly,\* correlator: the weekly aggregate of maintenance_df
    utilization_weekly,\* correlator: the weekly aggregate of utilization_df
    corr_joined,       \* correlator: the joined weekly table
    corr_return,       \* correlator: which return statement was taken
    dt_pc,             \* date stages: position in the two calls
    dt_in,             \* date stages: the table passed to convert_date_columns
    dt_targets,        \* date stages: the date_columns argument
    dt_out,            \* date stages: the table convert_date_columns returned
    wk_out,            \* date stages: the table create_week_column returned
    wk_printed,        \* date stages: what create_week_column printed
    mx_pc,             \* correlation matrix: "idle", "call" or "returned"
    mx_in,             \* correlation matrix: the joined weekly table
    mx_out             \* correlation matrix: the matrix computed from it

colVars  == <<passes>>
mvVars   == <<mv_pc, mv_in, mv_strategy, mv_out>>
loadVars == <<listing, load_pc, epics_file, maintenance_file,
              utilization_file, missing_files, load_message, load_result>>
mainVars == <<pc, dir_exists, output_path, main_missing, load_returned, frames,
              correlation, correlation_df, correlation_matrix, raw, passed, file_content,
              written, printed, calls>>
corrVars == <<corr_pc, corr_frames, maintenance_weekly, utilization_weekly,
              corr_joined, corr_return>>
dtVars   == <<dt_pc, dt_in, dt_targets, dt_out, wk_out, wk_printed>>
mxVars   == <<mx_pc, mx_in, mx_out>>
vars     == <<passes, mv_pc, mv_in, mv_strategy, mv_out, listing, load_pc,
              epics_file, maintenance_file, utilization_file, missing_files,
              load_message, load_result, pc, dir_exists, output_path,
              main_missing, load_returned, frames, correlation, correlation_df,
              correlation_matrix, raw, passed, file_content,
              written, printed, calls, corr_pc, corr_frames,
              maintenance_weekly, utilization_weekly, corr_joined, corr_return,
              dt_pc, dt_in, dt_targets, dt_out, wk_out, wk_printed,
              mx_pc, mx_in, mx_out>>

(***************************************************************************)
(* Python string operations, on sequences of symbols.                      *)
(***************************************************************************)

\* sub in s
Contains(s, sub) ==
    \E i \in 0..(Len(s) - Len(sub)) : SubSeq(s, i + 1, i + Len(sub)) = sub

\* s.replace(old, new): leftmost occurrences, not overlapping (old is not empty)
RECURSIVE Replace(_, _, _)
Replace(s, old, new) ==
    IF Len(s) < Len(old) THEN s
    ELSE IF SubSeq(s, 1, Len(old)) = old
         THEN new \o Replace(SubSeq(s, Len(old) + 1, Len(s)), old, new)
         ELSE <<Head(s)>> \o Replace(Tail(s), old, new)

\* s.split(sep)[-1] for a one-symbol sep: what follows the last sep, or all of s
SplitLast(s, sep) ==
    LET at == {i \in 1..Len(s) : s[i] = sep}
    IN  IF at = {} THEN s
        ELSE LET last == CHOOSE i \in at : \A j \in at : j <= i
             IN  SubSeq(s, last + 1, Len(s))

(***************************************************************************)
(* Column Normalizer: clean_column_names.                                  *)
(***************************************************************************)

LBracket == "["
RBracket == "]"

UtilizationTable == "Dataverse_Desktop Machines Utilizations"
MaintenanceTable == "API_JIRA_Data_Maintenance"

\* 'Dataverse_Desktop Machines Utilizations['
UtilizationPrefix == <<UtilizationTable, LBracket>>

\* 'API_JIRA_Data_Maintenance['
MaintenancePrefix == <<MaintenanceTable, LBracket>>

\* the prefix rules test the qualifier text without its bracket
CleanName_BarePrefix(col) ==
    LET generic == IF Contains(col, <<LBracket>>) /\ Contains(col, <<RBracket>>)
                   THEN Replace(SplitLast(col, LBracket), <<RBracket>>, <<>>)
                   ELSE col
        util    == IF Contains(col, <<UtilizationTable>>)
                   THEN Replace(Replace(col, <<UtilizationTable>>, <<>>), <<RBracket>>, <<>>)
                   ELSE generic
    IN  IF Contains(col, <<MaintenanceTable>>)
        THEN Replace(Replace(col, <<MaintenanceTable>>, <<>>), <<RBracket>>, <<>>)
        ELSE util

\* the prefix rules rewrite new_col, the result so far, instead of col
CleanName_Chained(col) ==
    LET generic == IF Contains(col, <<LBracket>>) /\ Contains(col, <<RBracket>>)
                   THEN Replace(SplitLast(col, LBracket), <<RBracket>>, <<>>)
                   ELSE col
        util    == IF Contains(col, UtilizationPrefix)
                   THEN Replace(Replace(generic, UtilizationPrefix, <<>>), <<RBracket>>, <<>>)
                   ELSE generic
    IN  IF Contains(col, MaintenancePrefix)
        THEN Replace(Replace(util, MaintenancePrefix, <<>>), <<RBracket>>, <<>>)
        ELSE util

\* the body of the loop over the columns: new_col for one col.  The three
\* if statements run in order, each one assigning new_col from col.
CleanName(col) ==
    LET generic == IF Contains(col, <<LBracket>>) /\ Contains(col, <<RBracket>>)
                   THEN Replace(SplitLast(col, LBracket), <<RBracket>>, <<>>)
                   ELSE col
        util    == IF Contains(col, UtilizationPrefix)
                   THEN Replace(Replace(col, UtilizationPrefix, <<>>), <<RBracket>>, <<>>)
                   ELSE generic
    IN  IF Contains(col, MaintenancePrefix)
        THEN Replace(Replace(col, MaintenancePrefix, <<>>), <<RBracket>>, <<>>)
        ELSE util

\* the longest column name drawn
MaxNameLen == 5

\* how many times in a row the normalizer is applied
MaxPasses == 2

Symbol == {LBracket, RBracket, UtilizationTable, MaintenanceTable, "created"}

ColumnNames == UNION {[1..n -> Symbol] : n \in 0..MaxNameLen}

ColIdle == passes = <<>>

ColInit == passes \in {<<col>> : col \in ColumnNames}

\* cleaned_df = clean_column_names(df), on the table the last pass returned
CleanColumnNames ==
    /\ Len(passes) >= 1
    /\ Len(passes) <= MaxPasses
    /\ passes' = Append(passes, CleanName(passes[Len(passes)]))
    /\ UNCHANGED <<mvVars, loadVars, mainVars, corrVars, dtVars, mxVars>>

(***************************************************************************)
(* Tables.                                                                 *)
(***************************************************************************)

NaN == <<>>

IsNull(cell) == cell = NaN

NoTable == [columns |-> <<>>, dtypes |-> <<>>, rows |-> <<>>]

Indices(df) == 1..Len(df.columns)

\* col in df.columns
HasColumn(df, col) == \E i \in Indices(df) : df.columns[i] = col

\* the position of the column named col (names are distinct in the tables drawn)
IndexOf(df, col) == CHOOSE i \in Indices(df) : df.columns[i] = col

\* df[col]: the cells of the column at position i, in row order
Column(df, i) == [r \in 1..Len(df.rows) |-> df.rows[r][i]]

\* df[col].isnull().sum()
NullCount(df, i) == Cardinality({r \in 1..Len(df.rows) : IsNull(df.rows[r][i])})

\* df[col] = cells, with the dtype of the new column
SetColumn(df, i, cells, dtype) ==
    [df EXCEPT !.dtypes[i] = dtype,
               !.rows = [r \in 1..Len(df.rows) |-> [df.rows[r] EXCEPT ![i] = cells[r]]]]

\* df[col] = cells for a column name that is not in the table yet
AddColumn(df, col, cells, dtype) ==
    [columns |-> Append(df.columns, col),
     dtypes  |-> Append(df.dtypes, dtype),
     rows    |-> [r \in 1..Len(df.rows) |-> Append(df.rows[r], cells[r])]]

\* cleaned_df.rename(columns=new_columns) with new_columns[col] = CleanName(col)
RenameColumns(df) ==
    [df EXCEPT !.columns = [i \in Indices(df) |-> CleanName(df.columns[i])]]

\* df[col] = cells: the column is replaced when it is there and added when not
AssignColumn(df, col, cells, dtype) ==
    IF HasColumn(df, col) THEN SetColumn(df, IndexOf(df, col), cells, dtype)
    ELSE AddColumn(df, col, cells, dtype)

(***************************************************************************)
(* Missing-Value Resolver: handle_missing_values.                          *)
(***************************************************************************)

Unknown == <<"Unknown">>

RECURSIVE Gcd(_, _)
Gcd(a, b) == IF b = 0 THEN a ELSE Gcd(b, a % b)

\* the number n/d (n >= 0, d > 0) as a cell
Number(n, d) == LET g == Gcd(n, d) IN <<n \div g, d \div g>>

\* Series.dropna(): the non-null cells of a column, in order
NonNull(cells) == SelectSeq(cells, LAMBDA c : ~IsNull(c))

\* x <= y for two numbers
NumLeq(x, y) == x[1] * y[2] <= y[1] * x[2]

\* x + y for two numbers
NumAdd(x, y) == Number(x[1] * y[2] + y[1] * x[2], x[2] * y[2])

\* x / k for a number and a positive integer
NumDiv(x, k) == Number(x[1], x[2] * k)

RECURSIVE SortInsert(_, _)
SortInsert(sorted, v) ==
    IF sorted = <<>> THEN <<v>>
    ELSE IF NumLeq(v, Head(sorted)) THEN <<v>> \o sorted
         ELSE <<Head(sorted)>> \o SortInsert(Tail(sorted), v)

RECURSIVE Sort(_)
Sort(vals) == IF vals = <<>> THEN <<>> ELSE SortInsert(Sort(Tail(vals)), Head(vals))

RECURSIVE Sum(_)
Sum(vals) == IF vals = <<>> THEN <<0, 1>> ELSE NumAdd(Head(vals), Sum(Tail(vals)))

\* Series.median(): of the non-null values, NaN when there is none
Median(cells) ==
    LET vals == Sort(NonNull(cells))
        n    == Len(vals)
    IN  IF n = 0 THEN NaN
        ELSE IF n % 2 = 1 THEN vals[(n + 1) \div 2]
             ELSE NumDiv(NumAdd(vals[n \div 2], vals[n \div 2 + 1]), 2)

\* Series.mean(): of the non-null values, NaN when there is none
Mean(cells) ==
    LET vals == NonNull(cells)
    IN  IF Len(vals) = 0 THEN NaN ELSE NumDiv(Sum(vals), Len(vals))

\* the value replaces every cell of a column that is filled
FillNa_Overwrites(cell, value) == IF IsNull(value) THEN cell ELSE value

\* Series.fillna(value): fillna(NaN) leaves the nulls as they are
FillNa(cell, value) == IF IsNull(cell) THEN value ELSE cell

\* a null timestamp does not count
DropNa_IgnoresTimestamps(df) ==
    [df EXCEPT !.rows = SelectSeq(df.rows, LAMBDA row :
        \A i \in Indices(df) : df.dtypes[i] = "datetime64" \/ ~IsNull(row[i]))]

\* df.dropna(): the rows with no null in any column
DropNa(df) ==
    [df EXCEPT !.rows = SelectSeq(df.rows, LAMBDA row : \A i \in Indices(df) : ~IsNull(row[i]))]

\* the timestamp columns are filled as the text columns are
FillValue_FillsTimestamps(df, i, strategy) ==
    IF NullCount(df, i) = 0 THEN NaN
    ELSE IF df.dtypes[i] = "number"
         THEN IF strategy = "median" THEN Median(Column(df, i))
              ELSE IF strategy = "mean" THEN Mean(Column(df, i))
              ELSE NaN
         ELSE Unknown

\* the text columns are left out of the fill
FillValue_NumericOnly(df, i, strategy) ==
    IF NullCount(df, i) = 0 THEN NaN
    ELSE IF df.dtypes[i] = "number"
         THEN IF strategy = "median" THEN Median(Column(df, i))
              ELSE IF strategy = "mean" THEN Mean(Column(df, i))
              ELSE NaN
         ELSE NaN

\* the value the else branch fills the nulls of column i with (NaN: the
\* column is not filled): the numeric columns are those select_dtypes finds
\* for np.number, the categorical ones those it finds for 'object'
FillValue(df, i, strategy) ==
    IF NullCount(df, i) = 0 THEN NaN
    ELSE IF df.dtypes[i] = "number"
         THEN IF strategy = "median" THEN Median(Column(df, i))
              ELSE IF strategy = "mean" THEN Mean(Column(df, i))
              ELSE NaN
         ELSE IF df.dtypes[i] = "object" THEN Unknown
         ELSE NaN

\* handle_missing_values(df, strategy): the table returned
HandleMissingValues(df, strategy) ==
    IF strategy = "drop" THEN DropNa(df)
    ELSE [df EXCEPT !.rows =
            [r \in 1..Len(df.rows) |->
                [i \in Indices(df) |-> FillNa(df.rows[r][i], FillValue(df, i, strategy))]]]

\* the most rows a table drawn for the resolver has
MaxRows == 3

Strategies == {"median", "mean", "drop"}

\* one numeric, one text and one timestamp column
MvColumns == << <<"SumMaintenance_Hours">>, <<"status">>, <<"created">> >>

MvDtypes == <<"number", "object", "datetime64">>

MvRow == {<<hours, status, created>> :
            hours   \in {NaN, <<1, 1>>, <<2, 1>>},
            status  \in {NaN, <<"Done">>},
            created \in {NaN, <<2025, 1, 13>>}}

MvTables == {[columns |-> MvColumns, dtypes |-> MvDtypes, rows |-> rows] :
                rows \in UNION {[1..n -> MvRow] : n \in 0..MaxRows}}

MvIdle == mv_pc = "idle" /\ mv_in = NoTable /\ mv_strategy = "median" /\ mv_out = NoTable

MvInit ==
    /\ mv_pc = "call"
    /\ mv_in \in MvTables
    /\ mv_strategy \in Strategies
    /\ mv_out = NoTable

\* df = handle_missing_values(df, strategy)
HandleMissing ==
    /\ mv_pc = "call"
    /\ mv_pc' = "returned"
    /\ mv_out' = HandleMissingValues(mv_in, mv_strategy)
    /\ UNCHANGED <<mv_in, mv_strategy>>
    /\ UNCHANGED <<colVars, loadVars, mainVars, corrVars, dtVars, mxVars>>

(***************************************************************************)
(* Type Coercion Stage: convert_date_columns.                              *)
(***************************************************************************)

\* the texts pd.to_datetime parses, each with the calendar day it gives;
\* every other text is coerced to NaT
DateTexts ==
    ("2025-01-13" :> <<2025, 1, 13>>) @@ ("2025-01-20" :> <<2025, 1, 20>>) @@
    ("2024-12-30" :> <<2024, 12, 30>>) @@ ("2025-12-29" :> <<2025, 12, 29>>) @@
    ("2021-01-03" :> <<2021, 1, 3>>) @@ ("2027-01-01" :> <<2027, 1, 1>>) @@
    ("2025-01-13T09:00:00+00:00" :> <<2025, 1, 13>>)

\* the texts that carry a UTC offset: they parse to tz-aware timestamps
AwareTexts == {"2025-01-13T09:00:00+00:00"}

\* a text that does not parse is left as it is
ToDatetime_KeepsText(cell) ==
    IF IsNull(cell) THEN NaN
    ELSE IF Len(cell) = 3 THEN cell
    ELSE IF Len(cell) = 2 THEN <<1970, 1, 1>>
    ELSE IF cell[1] \in DOMAIN DateTexts THEN DateTexts[cell[1]]
    ELSE cell

\* one value under pd.to_datetime(..., errors='coerce')
ToDatetime(cell) ==
    IF IsNull(cell) THEN NaN
    ELSE IF Len(cell) = 3 THEN cell
    ELSE IF Len(cell) = 2 THEN <<1970, 1, 1>>
    ELSE IF cell[1] \in DOMAIN DateTexts THEN DateTexts[cell[1]]
    ELSE NaN

\* whether the text cells of a column carry UTC offsets (a column drawn
\* holds offsets in all of its date texts or in none)
IsAware(cells) ==
    \E r \in 1..Len(cells) : Len(cells[r]) = 1 /\ cells[r][1] \in AwareTexts

\* df_copy[col] = pd.to_datetime(df_copy[col], errors='coerce') for column i
ConvertColumn(df, i) ==
    LET cells == Column(df, i)
    IN  SetColumn(df, i, [r \in 1..Len(cells) |-> ToDatetime(cells[r])],
                  IF df.dtypes[i] = "datetime64tz" \/ IsAware(cells)
                  THEN "datetime64tz" ELSE "datetime64")

\* a name that is not a column is added as a column of nulls
RECURSIVE ConvertDateColumns_AddsAbsent(_, _)
ConvertDateColumns_AddsAbsent(df, date_columns) ==
    IF date_columns = <<>> THEN df
    ELSE LET col == Head(date_columns)
         IN  ConvertDateColumns_AddsAbsent(
                 IF HasColumn(df, col) THEN ConvertColumn(df, IndexOf(df, col))
                 ELSE AddColumn(df, col, [r \in 1..Len(df.rows) |-> NaN], "datetime64"),
                 Tail(date_columns))

\* convert_date_columns(df, date_columns): the loop over date_columns
RECURSIVE ConvertDateColumns(_, _)
ConvertDateColumns(df, date_columns) ==
    IF date_columns = <<>> THEN df
    ELSE LET col == Head(date_columns)
         IN  ConvertDateColumns(
                 IF HasColumn(df, col) THEN ConvertColumn(df, IndexOf(df, col)) ELSE df,
                 Tail(date_columns))

(***************************************************************************)
(* Temporal Bucketing Stage: create_week_column.                           *)
(***************************************************************************)

IsLeap(y) == (y % 4 = 0 /\ y % 100 # 0) \/ y % 400 = 0

DaysBeforeMonth == <<0, 31, 59, 90, 120, 151, 181, 212, 243, 273, 304, 334>>

DayOfYear(y, m, d) == DaysBeforeMonth[m] + d + (IF m > 2 /\ IsLeap(y) THEN 1 ELSE 0)

\* days since 0001-01-01, which is day 1 and a Monday
Ordinal(y, m, d) ==
    365 * (y - 1) + ((y - 1) \div 4) - ((y - 1) \div 100) + ((y - 1) \div 400)
        + DayOfYear(y, m, d)

\* Monday = 1 .. Sunday = 7
IsoWeekday(y, m, d) == ((Ordinal(y, m, d) - 1) % 7) + 1

\* a year has 53 ISO weeks when it starts on a Thursday, or on a Wednesday
\* and is a leap year
WeeksInYear(y) ==
    LET jan1 == IsoWeekday(y, 1, 1)
    IN  IF jan1 = 4 \/ (jan1 = 3 /\ IsLeap(y)) THEN 53 ELSE 52

\* the calendar year stands for the ISO year
IsoCalendar_CalendarYear(ts) ==
    LET y == ts[1]
        w == (DayOfYear(y, ts[2], ts[3]) - IsoWeekday(y, ts[2], ts[3]) + 10) \div 7
    IN  IF w < 1 THEN [year |-> y, week |-> WeeksInYear(y - 1)]
        ELSE IF w > WeeksInYear(y) THEN [year |-> y, week |-> 1]
        ELSE [year |-> y, week |-> w]

\* Series.dt.isocalendar(): [year, week] of a timestamp
IsoCalendar(ts) ==
    LET y == ts[1]
        w == (DayOfYear(y, ts[2], ts[3]) - IsoWeekday(y, ts[2], ts[3]) + 10) \div 7
    IN  IF w < 1 THEN [year |-> y - 1, week |-> WeeksInYear(y - 1)]
        ELSE IF w > WeeksInYear(y) THEN [year |-> y + 1, week |-> 1]
        ELSE [year |-> y, week |-> w]

\* str.zfill(2)
ZFill2(str) == IF Len(str) < 2 THEN "0" \o str ELSE str

\* astype(str) of a UInt32 cell: the missing value prints as <NA>
AsTypeStr(cell) == IF IsNull(cell) THEN "<NA>" ELSE ToString(cell[1])

YearColumn(cells) ==
    [r \in 1..Len(cells) |->
        IF IsNull(cells[r]) THEN NaN ELSE <<IsoCalendar(cells[r]).year, 1>>]

WeekColumn(cells) ==
    [r \in 1..Len(cells) |->
        IF IsNull(cells[r]) THEN NaN ELSE <<IsoCalendar(cells[r]).week, 1>>]

\* df['Year'].astype(str) + df['Week'].astype(str).str.zfill(2)
YearWeekColumn(years, weeks) ==
    [r \in 1..Len(years) |-> <<AsTypeStr(years[r]) \o ZFill2(AsTypeStr(weeks[r]))>>]

\* the three columns are added, empty, when the date column cannot be used
CreateWeekColumn_AlwaysAdds(df, date_column) ==
    IF HasColumn(df, date_column) /\ df.dtypes[IndexOf(df, date_column)] = "datetime64"
    THEN LET dates  == Column(df, IndexOf(df, date_column))
             years  == YearColumn(dates)
             weeks  == WeekColumn(dates)
             withY  == AssignColumn(df, <<"Year">>, years, "number")
             withW  == AssignColumn(withY, <<"Week">>, weeks, "number")
         IN  AssignColumn(withW, <<"YearWeek">>, YearWeekColumn(years, weeks), "object")
    ELSE LET nulls == [r \in 1..Len(df.rows) |-> NaN]
             withY == AssignColumn(df, <<"Year">>, nulls, "number")
             withW == AssignColumn(withY, <<"Week">>, nulls, "number")
         IN  AssignColumn(withW, <<"YearWeek">>, nulls, "object")

\* create_week_column(df, date_column): the table returned
CreateWeekColumn(df, date_column) ==
    IF HasColumn(df, date_column) /\ df.dtypes[IndexOf(df, date_column)] = "datetime64"
    THEN LET dates  == Column(df, IndexOf(df, date_column))
             years  == YearColumn(dates)
             weeks  == WeekColumn(dates)
             withY  == AssignColumn(df, <<"Year">>, years, "number")
             withW  == AssignColumn(withY, <<"Week">>, weeks, "number")
         IN  AssignColumn(withW, <<"YearWeek">>, YearWeekColumn(years, weeks), "object")
    ELSE df

\* create_week_column(df, date_column): the line printed
CreateWeekMessage(df, date_column) ==
    IF HasColumn(df, date_column)
    THEN IF df.dtypes[IndexOf(df, date_column)] = "datetime64"
         THEN "Created week columns based on"
         ELSE "is not in datetime format"
    ELSE "not found in DataFrame"

(***************************************************************************)
(* Source-file lookup: load_csv_files.                                     *)
(***************************************************************************)

EpicsName       == "API_JIRA_Data_Epics"
MaintenanceName == "API_JIRA_Data_Maintenance_Query"
UtilizationName == "Dataverse Desktop Machine Utilizations"

\* s.endswith(suffix)
EndsWith(s, suffix) ==
    Len(s) >= Len(suffix) /\ SubSeq(s, Len(s) - Len(suffix) + 1, Len(s)) = suffix

NoFile == <<>>

NoSlots == [epics_file |-> NoFile, maintenance_file |-> NoFile, utilization_file |-> NoFile]

\* a slot already filled keeps its file
MatchFile_FirstKept(slots, file) ==
    IF EndsWith(file, <<".csv">>)
    THEN IF Contains(file, <<EpicsName>>)
         THEN IF slots.epics_file = NoFile
              THEN [slots EXCEPT !.epics_file = file] ELSE slots
         ELSE IF Contains(file, <<MaintenanceName>>)
              THEN IF slots.maintenance_file = NoFile
                   THEN [slots EXCEPT !.maintenance_file = file] ELSE slots
         ELSE IF Contains(file, <<UtilizationName>>)
              THEN IF slots.utilization_file = NoFile
                   THEN [slots EXCEPT !.utilization_file = file] ELSE slots
         ELSE slots
    ELSE slots

\* the body of the loop over os.listdir: the if / elif chain on one entry
MatchFile(slots, file) ==
    IF EndsWith(file, <<".csv">>)
    THEN IF Contains(file, <<EpicsName>>) THEN [slots EXCEPT !.epics_file = file]
         ELSE IF Contains(file, <<MaintenanceName>>)
              THEN [slots EXCEPT !.maintenance_file = file]
         ELSE IF Contains(file, <<UtilizationName>>)
              THEN [slots EXCEPT !.utilization_file = file]
         ELSE slots
    ELSE slots

\* the loop over os.listdir(current_dir), from the slots filled so far
RECURSIVE ScanFiles(_, _)
ScanFiles(slots, files) ==
    IF files = <<>> THEN slots ELSE ScanFiles(MatchFile(slots, Head(files)), Tail(files))

\* only the epics slot is tested
AllFound_EpicsOnly(slots) == slots.epics_file # NoFile

\* epics_file and maintenance_file and utilization_file
AllFound(slots) ==
    slots.epics_file # NoFile /\ slots.maintenance_file # NoFile
        /\ slots.utilization_file # NoFile

\* the utilization slot is never reported
MissingFiles_NoUtilization(slots) ==
    (IF slots.epics_file = NoFile THEN <<EpicsName>> ELSE <<>>)
        \o (IF slots.maintenance_file = NoFile THEN <<MaintenanceName>> ELSE <<>>)

\* missing_files, as the three appends build it
MissingFiles(slots) ==
    (IF slots.epics_file = NoFile THEN <<EpicsName>> ELSE <<>>)
        \o (IF slots.maintenance_file = NoFile THEN <<MaintenanceName>> ELSE <<>>)
        \o (IF slots.utilization_file = NoFile THEN <<UtilizationName>> ELSE <<>>)

\* load_csv_files() on a directory listing, readable saying whether the three
\* pd.read_csv calls succeed: what it reports and what it returns
LoadCsvFiles(files, readable) ==
    LET slots == ScanFiles(NoSlots, files)
    IN  IF ~AllFound(slots)
        THEN [missing |-> MissingFiles(slots), message |-> "File not found",
              result |-> "none"]
        ELSE IF ~readable
             THEN [missing |-> <<>>, message |-> "Error loading CSV files",
                   result |-> "none"]
             ELSE [missing |-> <<>>, message |-> "", result |-> "frames"]

\* the most entries a directory listing drawn has
MaxFiles == 3

FileNames ==
    {body \o <<ext>> :
        body \in {<<"notes">>, <<EpicsName>>, <<MaintenanceName>>, <<UtilizationName>>,
                  <<EpicsName, MaintenanceName>>, <<MaintenanceName, UtilizationName>>},
        ext \in {".csv", ".xlsx"}}

\* os.listdir returns each name once, in any order
Listings ==
    {files \in UNION {[1..n -> FileNames] : n \in 0..MaxFiles} :
        \A i, j \in DOMAIN files : files[i] = files[j] => i = j}

LoadIdle ==
    /\ listing = <<>>
    /\ load_pc = "idle"
    /\ epics_file = NoFile
    /\ maintenance_file = NoFile
    /\ utilization_file = NoFile
    /\ missing_files = <<>>
    /\ load_message = ""
    /\ load_result = "unset"

LoadInit ==
    /\ listing \in Listings
    /\ load_pc = "find"
    /\ epics_file = NoFile
    /\ maintenance_file = NoFile
    /\ utilization_file = NoFile
    /\ missing_files = <<>>
    /\ load_message = ""
    /\ load_result = "unset"

CurrentSlots ==
    [epics_file |-> epics_file, maintenance_file |-> maintenance_file,
     utilization_file |-> utilization_file]

\* lines 48-60: the slots are filled from the listing
FindFiles ==
    /\ load_pc = "find"
    /\ LET slots == ScanFiles(NoSlots, listing)
       IN  /\ epics_file' = slots.epics_file
           /\ maintenance_file' = slots.maintenance_file
           /\ utilization_file' = slots.utilization_file
    /\ load_pc' = "check"
    /\ UNCHANGED <<listing, missing_files, load_message, load_result>>
    /\ UNCHANGED <<colVars, mvVars, mainVars, corrVars, dtVars, mxVars>>

\* lines 63-72 and 86-88: a slot is empty, FileNotFoundError is raised and caught
RaiseFileNotFound ==
    /\ load_pc = "check"
    /\ ~AllFound(CurrentSlots)
    /\ missing_files' = MissingFiles(CurrentSlots)
    /\ load_message' = "File not found"
    /\ load_result' = "none"
    /\ load_pc' = "done"
    /\ UNCHANGED <<listing, epics_file, maintenance_file, utilization_file>>
    /\ UNCHANGED <<colVars, mvVars, mainVars, corrVars, dtVars, mxVars>>

\* lines 74-84 and 89-91: the three files are read; a pd.read_csv that raises
\* is caught by the last except clause
ReadCsvFiles ==
    /\ load_pc = "check"
    /\ AllFound(CurrentSlots)
    /\ \E readable \in BOOLEAN :
        /\ load_message' = IF readable THEN "" ELSE "Error loading CSV files"
        /\ load_result' = IF readable THEN "frames" ELSE "none"
    /\ load_pc' = "done"
    /\ UNCHANGED <<listing, epics_file, maintenance_file, utilization_file, missing_files>>
    /\ UNCHANGED <<colVars, mvVars, mainVars, corrVars, dtVars, mxVars>>

(***************************************************************************)
(* Cross-Dataset Correlator: calculate_correlation_metrics.                *)
(***************************************************************************)

YearWeek == <<"YearWeek">>

\* the date_column argument of the three create_week_column calls
WeekColumnOf ==
    [epics_df |-> <<"created">>, maintenance_df |-> <<"created">>,
     utilization_df |-> <<"Created On">>]

\* the keys of the two dictionaries passed to agg
MaintenanceAggColumns ==
    {<<"SumMaintenance_Hours">>, <<"Total_Maintenance_Tickets_By_Week">>,
     <<"Maintenance_Time_Allocation_Percentage">>}

UtilizationAggColumns ==
    {<<"SumRuntime_duration__mins_">>, <<"Machine_Utilization__">>,
     <<"Idle_Percentage__">>, <<"Desktop_Flow_Success_Rate_Goal">>,
     <<"Desktop_Run_Percent_Success">>}

\* groupby(...).agg(...) raises KeyError for a column that is not there and
\* TypeError for the mean of a column that is not numeric
CanAggregate(df, agg_columns) ==
    \A col \in agg_columns :
        HasColumn(df, col) /\ df.dtypes[IndexOf(df, col)] = "number"

\* which return statement calculate_correlation_metrics leaves by:
\* "None" (line 241), "None, None" (line 270, after an exception) or
\* "correlation_df, correlation_matrix" (line 266)
CorrelationResult(maintenance_df, utilization_df) ==
    IF ~HasColumn(maintenance_df, YearWeek) \/ ~HasColumn(utilization_df, YearWeek)
    THEN "None"
    ELSE IF ~CanAggregate(maintenance_df, MaintenanceAggColumns)
            \/ ~CanAggregate(utilization_df, UtilizationAggColumns)
         THEN "None, None"
         ELSE "correlation_df, correlation_matrix"

\* the dictionaries passed to agg, in key order
MaintenanceAgg ==
    << [column |-> <<"SumMaintenance_Hours">>, how |-> "sum"],
       [column |-> <<"Total_Maintenance_Tickets_By_Week">>, how |-> "mean"],
       [column |-> <<"Maintenance_Time_Allocation_Percentage">>, how |-> "mean"] >>

UtilizationAgg ==
    << [column |-> <<"SumRuntime_duration__mins_">>, how |-> "sum"],
       [column |-> <<"Machine_Utilization__">>, how |-> "mean"],
       [column |-> <<"Idle_Percentage__">>, how |-> "mean"],
       [column |-> <<"Desktop_Flow_Success_Rate_Goal">>, how |-> "mean"],
       [column |-> <<"Desktop_Run_Percent_Success">>, how |-> "mean"] >>

\* the days the tables drawn hold
DrawnDays == {DateTexts[t] : t \in DOMAIN DateTexts}

\* the number of the week of a day: ISO year, then ISO week in two digits
WeekNumber(ts) == IsoCalendar(ts).year * 100 + IsoCalendar(ts).week

\* the place of a key in the order of str: the keys of weeks are digit texts
\* of one length, which order as their numbers, and "<" comes after every
\* digit
KeyRank(key) ==
    LET days == {ts \in DrawnDays : ToString(WeekNumber(ts)) = key[1]}
    IN  IF days = {} THEN 1000000 ELSE WeekNumber(CHOOSE ts \in days : TRUE)

RECURSIVE SortKeys(_)
SortKeys(keys) ==
    IF keys = {} THEN <<>>
    ELSE LET first == CHOOSE k \in keys : \A o \in keys : KeyRank(k) <= KeyRank(o)
         IN  <<first>> \o SortKeys(keys \ {first})

\* the group keys of groupby('YearWeek'): the distinct values of the column,
\* nulls dropped, sorted
GroupKeys(df) ==
    LET cells == Column(df, IndexOf(df, YearWeek))
    IN  SortKeys({cells[r] : r \in 1..Len(cells)} \ {NaN})

\* the rows of one group, in order
GroupRows(df, key) ==
    SelectSeq(df.rows, LAMBDA row : row[IndexOf(df, YearWeek)] = key)

\* every column is averaged
AggCell_AllMean(df, key, agg) ==
    LET rows  == GroupRows(df, key)
        cells == [r \in 1..Len(rows) |-> rows[r][IndexOf(df, agg.column)]]
    IN  Mean(cells)

\* one cell of the aggregate: 'sum' adds the non-null values of the group
\* (0 when there is none), 'mean' averages them
AggCell(df, key, agg) ==
    LET rows  == GroupRows(df, key)
        cells == [r \in 1..Len(rows) |-> rows[r][IndexOf(df, agg.column)]]
    IN  IF agg.how = "sum" THEN Sum(NonNull(cells)) ELSE Mean(cells)

\* df.groupby('YearWeek').agg({...}).reset_index()
GroupByAgg(df, aggs) ==
    LET keys == GroupKeys(df)
    IN  [columns |-> <<YearWeek>> \o [i \in 1..Len(aggs) |-> aggs[i].column],
         dtypes  |-> <<"object">> \o [i \in 1..Len(aggs) |-> "number"],
         rows    |-> [k \in 1..Len(keys) |->
                        <<keys[k]>> \o
                        [i \in 1..Len(aggs) |-> AggCell(df, keys[k], aggs[i])]]]

\* a row without its cell at position i
DropCell(row, i) == SubSeq(row, 1, i - 1) \o SubSeq(row, i + 1, Len(row))

\* the joined rows of the left rows from position r on
RECURSIVE MergeFrom(_, _, _)
MergeFrom(left, right, r) ==
    IF r > Len(left.rows) THEN <<>>
    ELSE LET li      == IndexOf(left, YearWeek)
             ri      == IndexOf(right, YearWeek)
             matches == SelectSeq(right.rows,
                                  LAMBDA row : row[ri] = left.rows[r][li])
         IN  [m \in 1..Len(matches) |-> left.rows[r] \o DropCell(matches[m], ri)]
             \o MergeFrom(left, right, r + 1)

\* every left row is kept, with nulls where no right row has its key
InnerMerge_KeepLeft(left, right) ==
    LET li == IndexOf(left, YearWeek)
        ri == IndexOf(right, YearWeek)
    IN  [columns |-> left.columns \o DropCell(right.columns, ri),
         dtypes  |-> left.dtypes \o DropCell(right.dtypes, ri),
         rows    |-> [r \in 1..Len(left.rows) |->
                        LET matches == SelectSeq(right.rows,
                                           LAMBDA row : row[ri] = left.rows[r][li])
                        IN  IF matches = <<>>
                            THEN left.rows[r] \o [i \in 1..(Len(right.columns) - 1) |-> NaN]
                            ELSE left.rows[r] \o DropCell(matches[1], ri)]]

\* pd.merge(left, right, on='YearWeek', how='inner'): the key column once,
\* then the other columns of left and of right; the keys in the order of left
InnerMerge(left, right) ==
    [columns |-> left.columns \o DropCell(right.columns, IndexOf(right, YearWeek)),
     dtypes  |-> left.dtypes \o DropCell(right.dtypes, IndexOf(right, YearWeek)),
     rows    |-> MergeFrom(left, right, 1)]

\* x * y and x - y for two numbers (a difference may be negative)
NumMul(x, y) == Number(x[1] * y[1], x[2] * y[2])

NumSub(x, y) == Number(x[1] * y[2] - y[1] * x[2], x[2] * y[2])

\* the sum of products is not divided by the two spreads
Pearson_NotNormalised(xs, ys) ==
    LET both == SelectSeq([r \in 1..Len(xs) |-> <<xs[r], ys[r]>>],
                          LAMBDA p : ~IsNull(p[1]) /\ ~IsNull(p[2]))
        n    == <<Len(both), 1>>
        sx   == Sum([k \in 1..Len(both) |-> both[k][1]])
        sy   == Sum([k \in 1..Len(both) |-> both[k][2]])
    IN  NumSub(NumMul(n, Sum([k \in 1..Len(both) |-> NumMul(both[k][1], both[k][2])])),
               NumMul(sx, sy))

\* the Pearson coefficient r of two columns over the rows where both hold a
\* value: Sxy / sqrt(Sxx * Syy), NaN when that divisor is 0 (a column that
\* does not vary, fewer than two rows).  r is held as the number
\* sign(r) * r * r, which is rational.
Pearson(xs, ys) ==
    LET both == SelectSeq([r \in 1..Len(xs) |-> <<xs[r], ys[r]>>],
                          LAMBDA p : ~IsNull(p[1]) /\ ~IsNull(p[2]))
        n    == <<Len(both), 1>>
        sx   == Sum([k \in 1..Len(both) |-> both[k][1]])
        sy   == Sum([k \in 1..Len(both) |-> both[k][2]])
        sxx  == NumSub(NumMul(n, Sum([k \in 1..Len(both) |-> NumMul(both[k][1], both[k][1])])),
                       NumMul(sx, sx))
        syy  == NumSub(NumMul(n, Sum([k \in 1..Len(both) |-> NumMul(both[k][2], both[k][2])])),
                       NumMul(sy, sy))
        sxy  == NumSub(NumMul(n, Sum([k \in 1..Len(both) |-> NumMul(both[k][1], both[k][2])])),
                       NumMul(sx, sy))
    IN  IF sxx[1] = 0 \/ syy[1] = 0 THEN NaN
        ELSE Number((IF sxy[1] < 0 THEN 0 - 1 ELSE 1) * sxy[1] * sxy[1] * sxx[2] * syy[2],
                    sxy[2] * sxy[2] * sxx[1] * syy[1])

\* correlation_df[numeric_cols].corr(): a row and a column for each numeric
\* column of the table, in the order of the table
Corr(df) ==
    LET numeric_cols == SelectSeq([i \in Indices(df) |-> i],
                                  LAMBDA i : df.dtypes[i] = "number")
    IN  [columns |-> [k \in 1..Len(numeric_cols) |-> df.columns[numeric_cols[k]]],
         dtypes  |-> [k \in 1..Len(numeric_cols) |-> "number"],
         rows    |-> [j \in 1..Len(numeric_cols) |->
                        [k \in 1..Len(numeric_cols) |->
                            Pearson(Column(df, numeric_cols[j]),
                                    Column(df, numeric_cols[k]))]]]

\* a join without rows ends in the except clause
CalculateCorrelationMetrics_EmptyJoinFails(maintenance_df, utilization_df) ==
    LET kind == CorrelationResult(maintenance_df, utilization_df)
        none == [kind               |-> "None, None",
                 maintenance_weekly |-> NoTable,
                 utilization_weekly |-> NoTable,
                 correlation_df     |-> NoTable,
                 correlation_matrix |-> NoTable]
    IN  IF kind = "correlation_df, correlation_matrix"
        THEN LET maintenance == GroupByAgg(maintenance_df, MaintenanceAgg)
                 utilization == GroupByAgg(utilization_df, UtilizationAgg)
                 joined      == InnerMerge(maintenance, utilization)
             IN  IF joined.rows = <<>> THEN none
                 ELSE [kind               |-> kind,
                       maintenance_weekly |-> maintenance,
                       utilization_weekly |-> utilization,
                       correlation_df     |-> joined,
                       correlation_matrix |-> Corr(joined)]
        ELSE [none EXCEPT !.kind = kind]

\* calculate_correlation_metrics(maintenance_df, utilization_df): the return
\* statement taken and the tables built on the way to line 266
CalculateCorrelationMetrics(maintenance_df, utilization_df) ==
    LET kind == CorrelationResult(maintenance_df, utilization_df)
    IN  IF kind = "correlation_df, correlation_matrix"
        THEN LET maintenance == GroupByAgg(maintenance_df, MaintenanceAgg)
                 utilization == GroupByAgg(utilization_df, UtilizationAgg)
                 joined      == InnerMerge(maintenance, utilization)
             IN  [kind               |-> kind,
                  maintenance_weekly |-> maintenance,
                  utilization_weekly |-> utilization,
                  correlation_df     |-> joined,
                  correlation_matrix |-> Corr(joined)]
        ELSE [kind               |-> kind,
              maintenance_weekly |-> NoTable,
              utilization_weekly |-> NoTable,
              correlation_df     |-> NoTable,
              correlation_matrix |-> NoTable]

\* the most rows a table drawn for the correlator has
MaxCorrRows == 2

\* the two tables as the stages before the bucketing leave them: the date
\* column typed, the measures numeric
CorrMaintenanceRow ==
    {<<day[1], day[2], <<1, 1>>, <<1, 2>> >> :
        day \in {<<NaN, <<1, 1>> >>, << <<2025, 1, 13>>, <<1, 1>> >>,
                 << <<2025, 1, 13>>, <<2, 1>> >>, << <<2025, 1, 20>>, <<2, 1>> >>}}

CorrUtilizationRow ==
    {<<created, <<30, 1>>, <<1, 2>>, <<1, 2>>, <<1, 1>>, <<1, 1>> >> :
        created \in {NaN, <<2025, 1, 13>>, <<2025, 1, 20>>}}

CorrMaintenanceTables ==
    {[columns |-> << <<"created">> >> \o [i \in 1..3 |-> MaintenanceAgg[i].column],
      dtypes  |-> <<"datetime64", "number", "number", "number">>,
      rows    |-> rows] :
        rows \in UNION {[1..n -> CorrMaintenanceRow] : n \in 0..MaxCorrRows}}

CorrUtilizationTables ==
    {[columns |-> << <<"Created On">> >> \o [i \in 1..5 |-> UtilizationAgg[i].column],
      dtypes  |-> <<"datetime64", "number", "number", "number", "number", "number">>,
      rows    |-> rows] :
        rows \in UNION {[1..n -> CorrUtilizationRow] : n \in 0..MaxCorrRows}}

CorrIdle ==
    /\ corr_pc = "idle"
    /\ corr_frames = [maintenance_df |-> NoTable, utilization_df |-> NoTable]
    /\ maintenance_weekly = NoTable
    /\ utilization_weekly = NoTable
    /\ corr_joined = NoTable
    /\ corr_return = "unset"

CorrInit ==
    /\ corr_pc = "week_maintenance"
    /\ \E m \in CorrMaintenanceTables, u \in CorrUtilizationTables :
        corr_frames = [maintenance_df |-> m, utilization_df |-> u]
    /\ maintenance_weekly = NoTable
    /\ utilization_weekly = NoTable
    /\ corr_joined = NoTable
    /\ corr_return = "unset"

\* maintenance_df = create_week_column(maintenance_df, 'created')
WeekMaintenance ==
    /\ corr_pc = "week_maintenance"
    /\ corr_frames' = [corr_frames EXCEPT !.maintenance_df =
                          CreateWeekColumn(@, WeekColumnOf.maintenance_df)]
    /\ corr_pc' = "week_utilization"
    /\ UNCHANGED <<maintenance_weekly, utilization_weekly, corr_joined, corr_return>>
    /\ UNCHANGED <<colVars, mvVars, loadVars, mainVars, dtVars, mxVars>>

\* utilization_df = create_week_column(utilization_df, 'Created On')
WeekUtilization ==
    /\ corr_pc = "week_utilization"
    /\ corr_frames' = [corr_frames EXCEPT !.utilization_df =
                          CreateWeekColumn(@, WeekColumnOf.utilization_df)]
    /\ corr_pc' = "correlate"
    /\ UNCHANGED <<maintenance_weekly, utilization_weekly, corr_joined, corr_return>>
    /\ UNCHANGED <<colVars, mvVars, loadVars, mainVars, dtVars, mxVars>>

\* calculate_correlation_metrics(maintenance_df, utilization_df)
CalculateCorrelation ==
    /\ corr_pc = "correlate"
    /\ \E returned \in {CalculateCorrelationMetrics(corr_frames.maintenance_df,
                                                     corr_frames.utilization_df)} :
           /\ corr_return' = returned.kind
           /\ maintenance_weekly' = returned.maintenance_weekly
           /\ utilization_weekly' = returned.utilization_weekly
           /\ corr_joined' = returned.correlation_df
    /\ corr_pc' = "returned"
    /\ UNCHANGED corr_frames
    /\ UNCHANGED <<colVars, mvVars, loadVars, mainVars, dtVars, mxVars>>

(***************************************************************************)
(* The driver: main.                                                       *)
(***************************************************************************)

\* the raw tables a run may load.  A query export names a column of a table
\* Table[field] and a measure [measure].
Bracketed(table, field) == <<table, LBracket, field, RBracket>>

Measure(field) == <<LBracket, field, RBracket>>

\* the texts of the date column of a raw table: without offsets ("naive",
\* and "later" for two days of the week after), with offsets, or "absent"
\* for a table that has no such column
DateVariants == {"naive", "later", "aware", "absent"}

DateCells(variant) ==
    IF variant = "aware"
    THEN << <<"2025-01-13T09:00:00+00:00">>, <<"2025-01-13T09:00:00+00:00">> >>
    ELSE IF variant = "later"
         THEN << <<"2025-01-20">>, <<"2025-01-20">> >>
         ELSE << <<"2025-01-13">>, <<"not a date">> >>

\* a raw table of two rows: the date column (unless absent), then the others
RawTable(date_name, variant, names, dtypes, row1, row2) ==
    IF variant = "absent"
    THEN [columns |-> names, dtypes |-> dtypes, rows |-> <<row1, row2>>]
    ELSE [columns |-> <<date_name>> \o names,
          dtypes  |-> <<"object">> \o dtypes,
          rows    |-> << <<DateCells(variant)[1]>> \o row1,
                         <<DateCells(variant)[2]>> \o row2 >>]

EpicsTables ==
    {RawTable(Bracketed(EpicsName, "created"), v,
              << Bracketed(EpicsName, "status") >>, <<"object">>,
              << <<"Done">> >>, << NaN >>) : v \in DateVariants}

\* complete: whether the export holds all three aggregated measures
MaintenanceTables ==
    {RawTable(Bracketed(MaintenanceTable, "created"), v,
              IF complete
              THEN << Measure("SumMaintenance_Hours"),
                      Measure("Total_Maintenance_Tickets_By_Week"),
                      Measure("Maintenance_Time_Allocation_Percentage") >>
              ELSE << Measure("SumMaintenance_Hours"),
                      Measure("Total_Maintenance_Tickets_By_Week") >>,
              IF complete THEN <<"number", "number", "number">>
              ELSE <<"number", "number">>,
              IF complete THEN << <<1, 1>>, <<2, 1>>, NaN >> ELSE << <<1, 1>>, <<2, 1>> >>,
              IF complete THEN << <<2, 1>>, NaN, <<1, 2>> >> ELSE << <<2, 1>>, NaN >>) :
        v \in DateVariants, complete \in BOOLEAN}

UtilizationTables ==
    {RawTable(Bracketed(UtilizationTable, "Created On"), v,
              IF complete
              THEN << Measure("SumRuntime_duration__mins_"), Measure("Machine_Utilization__"),
                      Measure("Idle_Percentage__"),
                      Measure("Desktop_Flow_Success_Rate_Goal"),
                      Measure("Desktop_Run_Percent_Success") >>
              ELSE << Measure("SumRuntime_duration__mins_"), Measure("Machine_Utilization__") >>,
              IF complete THEN <<"number", "number", "number", "number", "number">>
              ELSE <<"number", "number">>,
              IF complete THEN << <<30, 1>>, <<1, 2>>, <<1, 2>>, <<1, 1>>, NaN >>
              ELSE << <<30, 1>>, <<1, 2>> >>,
              IF complete THEN << NaN, <<1, 4>>, <<3, 4>>, <<1, 1>>, <<1, 1>> >>
              ELSE << NaN, <<1, 4>> >>) :
        v \in DateVariants, complete \in BOOLEAN}

\* epics_date_columns, maintenance_date_columns and utilization_date_columns
DateColumns ==
    [epics_df |->
        << <<"created">>, <<"updated">>, <<"duedate">>, <<"Completed Date">>,
           <<"Start Date">> >>,
     maintenance_df |->
        << <<"created">>, <<"updated">>, <<"duedate">>, <<"Updated Completed Date">>,
           <<"Start Date">>, <<"Completed Date">> >>,
     utilization_df |->
        << <<"Created On">>, <<"Start">>, <<"End">>, <<"Date">>, <<"Start UTC">>,
           <<"End UTC">> >>]

StageNames ==
    <<"clean_column_names", "convert_date_columns", "handle_missing_values",
      "create_week_column">>

\* the bucketing is called before the missing values are resolved
StageProgram_WeekBeforeMissing ==
    [k \in 1..12 |->
        [dataset |-> <<"epics_df", "maintenance_df", "utilization_df">>[((k - 1) \div 4) + 1],
         stage   |-> <<"clean_column_names", "convert_date_columns", "create_week_column",
                       "handle_missing_values">>[((k - 1) % 4) + 1]]]

\* the twelve stage calls of lines 313-335, in program order
StageProgram ==
    [k \in 1..12 |->
        [dataset |-> <<"epics_df", "maintenance_df", "utilization_df">>[((k - 1) \div 4) + 1],
         stage   |-> StageNames[((k - 1) % 4) + 1]]]

OutputDir == "processed_data"

\* the joined table is written first
CsvFiles_CorrelationFirst ==
    <<"correlation_data.csv", "processed_epics.csv", "processed_maintenance.csv",
      "processed_utilization.csv">>

CsvFiles ==
    <<"processed_epics.csv", "processed_maintenance.csv", "processed_utilization.csv",
      "correlation_data.csv">>

Heatmap == "correlation_matrix.png"

NoFrames == [epics_df |-> NoTable, maintenance_df |-> NoTable, utilization_df |-> NoTable]

MainIdle ==
    /\ pc = "idle"
    /\ dir_exists = FALSE
    /\ output_path = "None"
    /\ main_missing = <<>>
    /\ load_returned = "unset"
    /\ frames = NoFrames
    /\ correlation = "unset"
    /\ correlation_df = NoTable
    /\ correlation_matrix = NoTable
    /\ raw = NoFrames
    /\ passed = <<>>
    /\ file_content = <<>>
    /\ written = <<>>
    /\ printed = <<>>
    /\ calls = <<>>

MainInit ==
    /\ pc = "start"
    /\ dir_exists \in BOOLEAN
    /\ output_path = "None"
    /\ main_missing = <<>>
    /\ load_returned = "unset"
    /\ frames = NoFrames
    /\ correlation = "unset"
    /\ correlation_df = NoTable
    /\ correlation_matrix = NoTable
    /\ raw = NoFrames
    /\ passed = <<>>
    /\ file_content = <<>>
    /\ written = <<>>
    /\ printed = <<>>
    /\ calls = <<>>

\* the path is returned and no directory is made
CreateOutputDirectory_NotMade ==
    /\ pc = "start"
    /\ \E created \in BOOLEAN :
        IF dir_exists \/ created
        THEN /\ dir_exists' = dir_exists
             /\ output_path' = OutputDir
             /\ printed' = Append(printed, IF dir_exists
                                           THEN "Output directory already exists"
                                           ELSE "Created output directory")
             /\ pc' = "load"
        ELSE /\ dir_exists' = FALSE
             /\ output_path' = "None"
             /\ printed' = Append(printed, "Error creating output directory")
             /\ pc' = "done"
    /\ UNCHANGED <<main_missing, load_returned, frames, correlation, correlation_df,
                   correlation_matrix, raw, passed, file_content, written, calls>>
    /\ UNCHANGED <<colVars, mvVars, loadVars, corrVars, dtVars, mxVars>>

\* main goes on to the load with the None it was given
CreateOutputDirectory_GoesOn ==
    /\ pc = "start"
    /\ \E created \in BOOLEAN :
        IF dir_exists \/ created
        THEN /\ dir_exists' = TRUE
             /\ output_path' = OutputDir
             /\ printed' = Append(printed, IF dir_exists
                                           THEN "Output directory already exists"
                                           ELSE "Created output directory")
        ELSE /\ dir_exists' = FALSE
             /\ output_path' = "None"
             /\ printed' = Append(printed, "Error creating output directory")
    /\ pc' = "load"
    /\ UNCHANGED <<main_missing, load_returned, frames, correlation, correlation_df,
                   correlation_matrix, raw, passed, file_content, written, calls>>
    /\ UNCHANGED <<colVars, mvVars, loadVars, corrVars, dtVars, mxVars>>

\* os.makedirs fails, or the directory is there already or is made
CreateOutputDirectory ==
    /\ pc = "start"
    /\ \E created \in BOOLEAN :
        IF dir_exists \/ created
        THEN /\ dir_exists' = TRUE
             /\ output_path' = OutputDir
             /\ printed' = Append(printed, IF dir_exists
                                           THEN "Output directory already exists"
                                           ELSE "Created output directory")
             /\ pc' = "load"
        ELSE /\ dir_exists' = FALSE
             /\ output_path' = "None"
             /\ printed' = Append(printed, "Error creating output directory")
             /\ pc' = "done"
    /\ UNCHANGED <<main_missing, load_returned, frames, correlation, correlation_df,
                   correlation_matrix, raw, passed, file_content, written, calls>>
    /\ UNCHANGED <<colVars, mvVars, loadVars, corrVars, dtVars, mxVars>>

\* lines 309-311: load_csv_files() and the return when it gave no tables
LoadFiles ==
    /\ pc = "load"
    /\ \E files \in Listings, readable \in BOOLEAN :
        LET loaded == LoadCsvFiles(files, readable)
        IN  /\ main_missing' = MissingFiles(ScanFiles(NoSlots, files))
            /\ load_returned' = loaded.result
            /\ printed' = IF loaded.message = "" THEN printed
                          ELSE Append(printed, loaded.message)
            /\ IF loaded.result = "frames"
               THEN /\ \E e \in EpicsTables, m \in MaintenanceTables, u \in UtilizationTables :
                        frames' = [epics_df |-> e, maintenance_df |-> m, utilization_df |-> u]
                    /\ pc' = "stages"
               ELSE /\ frames' = frames
                    /\ pc' = "done"
    /\ raw' = frames'
    /\ UNCHANGED <<dir_exists, output_path, correlation, correlation_df, correlation_matrix,
                   passed, file_content, written, calls>>
    /\ UNCHANGED <<colVars, mvVars, loadVars, corrVars, dtVars, mxVars>>

\* the next call of lines 313-335 is a call of this stage
AtStage(stage) ==
    /\ pc = "stages"
    /\ Len(calls) < Len(StageProgram)
    /\ StageProgram[Len(calls) + 1].stage = stage

NextDataset == StageProgram[Len(calls) + 1].dataset

\* the three names are bound to one table
StageDone_OneTable(df) ==
    /\ passed' = <<frames[NextDataset]>>
    /\ frames' = [d \in DOMAIN frames |-> df]
    /\ calls' = Append(calls, StageProgram[Len(calls) + 1])
    /\ pc' = IF Len(calls) + 1 = Len(StageProgram) THEN "correlate" ELSE "stages"
    /\ UNCHANGED <<dir_exists, output_path, main_missing, load_returned, correlation,
                   correlation_df, correlation_matrix, raw, file_content, written, printed>>
    /\ UNCHANGED <<colVars, mvVars, loadVars, corrVars, dtVars, mxVars>>

\* the stage works on the table passed to it, which ends as the table returned
StageDone_InPlace(df) ==
    /\ passed' = <<df>>
    /\ frames' = [frames EXCEPT ![NextDataset] = df]
    /\ calls' = Append(calls, StageProgram[Len(calls) + 1])
    /\ pc' = IF Len(calls) + 1 = Len(StageProgram) THEN "correlate" ELSE "stages"
    /\ UNCHANGED <<dir_exists, output_path, main_missing, load_returned, correlation,
                   correlation_df, correlation_matrix, raw, file_content, written, printed>>
    /\ UNCHANGED <<colVars, mvVars, loadVars, corrVars, dtVars, mxVars>>

\* the call returned: the stage worked on a copy, so the table passed is as
\* it was; the name is rebound to the table returned, and after the last
\* call of line 335 the driver goes on to the correlation
StageDone(df) ==
    /\ passed' = <<frames[NextDataset]>>
    /\ frames' = [frames EXCEPT ![NextDataset] = df]
    /\ calls' = Append(calls, StageProgram[Len(calls) + 1])
    /\ pc' = IF Len(calls) + 1 = Len(StageProgram) THEN "correlate" ELSE "stages"
    /\ UNCHANGED <<dir_exists, output_path, main_missing, load_returned, correlation,
                   correlation_df, correlation_matrix, raw, file_content, written, printed>>
    /\ UNCHANGED <<colVars, mvVars, loadVars, corrVars, dtVars, mxVars>>

CleanStage ==
    /\ AtStage("clean_column_names")
    /\ StageDone(RenameColumns(frames[NextDataset]))

ConvertStage ==
    /\ AtStage("convert_date_columns")
    /\ StageDone(ConvertDateColumns(frames[NextDataset], DateColumns[NextDataset]))

\* main passes no strategy: the default is 'median'
MissingStage ==
    /\ AtStage("handle_missing_values")
    /\ StageDone(HandleMissingValues(frames[NextDataset], "median"))

WeekStage ==
    /\ AtStage("create_week_column")
    /\ StageDone(CreateWeekColumn(frames[NextDataset], WeekColumnOf[NextDataset]))

\* line 339: the call and the unpacking of what it returns into two names.
\* A bare None cannot be unpacked: TypeError, which nothing in main catches.
\* line 341: with None, None the if is false and main returns.
Correlate ==
    /\ pc = "correlate"
    /\ \E returned \in {CalculateCorrelationMetrics(frames.maintenance_df,
                                                     frames.utilization_df)} :
           /\ correlation' = returned.kind
           /\ correlation_df' = returned.correlation_df
           /\ correlation_matrix' = returned.correlation_matrix
    /\ passed' = <<frames.maintenance_df, frames.utilization_df>>
    /\ printed' = IF correlation' = "None"
                  THEN Append(printed, "YearWeek column missing in one or both DataFrames")
                  ELSE IF correlation' = "None, None"
                       THEN Append(printed, "Error calculating correlation metrics")
                       ELSE printed
    /\ pc' = IF correlation' = "None" THEN "raised"
             ELSE IF correlation' = "None, None" THEN "done"
             ELSE "plot"
    /\ UNCHANGED <<dir_exists, output_path, main_missing, load_returned, frames, raw, file_content,
                   written, calls>>
    /\ UNCHANGED <<colVars, mvVars, loadVars, corrVars, dtVars, mxVars>>

\* line 343: plot_correlation_matrix catches whatever savefig raises
PlotCorrelationMatrix ==
    /\ pc = "plot"
    /\ \E saved \in BOOLEAN :
        /\ written' = IF saved THEN Append(written, Heatmap) ELSE written
        /\ file_content' = IF saved THEN (Heatmap :> correlation_matrix) @@ file_content
                         ELSE file_content
        /\ printed' = IF saved THEN printed
                      ELSE Append(printed, "Error plotting correlation matrix")
    /\ pc' = "export"
    /\ UNCHANGED <<dir_exists, output_path, main_missing, load_returned, frames, correlation,
                   correlation_df, correlation_matrix, raw, passed, calls>>
    /\ UNCHANGED <<colVars, mvVars, loadVars, corrVars, dtVars, mxVars>>

CsvWritten == SelectSeq(written, LAMBDA f : f # Heatmap)

\* the matrix is written where the joined table should be
ExportTables_MatrixLast ==
    <<frames.epics_df, frames.maintenance_df, frames.utilization_df, correlation_matrix>>

\* the tables of the four to_csv calls of lines 347-350, in order
ExportTables ==
    <<frames.epics_df, frames.maintenance_df, frames.utilization_df, correlation_df>>

\* lines 346-359: the next to_csv of the try block; one that raises ends the
\* block in the except clause
ExportCsv ==
    /\ pc = "export"
    /\ \E saved \in BOOLEAN :
        IF saved
        THEN /\ written' = Append(written, CsvFiles[Len(CsvWritten) + 1])
             /\ file_content' =
                    (CsvFiles[Len(CsvWritten) + 1] :> ExportTables[Len(CsvWritten) + 1])
                        @@ file_content
             /\ printed' = printed
             /\ pc' = IF Len(CsvWritten) + 1 = Len(CsvFiles) THEN "done" ELSE "export"
        ELSE /\ written' = written
             /\ file_content' = file_content
             /\ printed' = Append(printed, "Error exporting processed data")
             /\ pc' = "done"
    /\ UNCHANGED <<dir_exists, output_path, main_missing, load_returned, frames, correlation,
                   correlation_df, correlation_matrix, raw, passed, calls>>
    /\ UNCHANGED <<colVars, mvVars, loadVars, corrVars, dtVars, mxVars>>

(***************************************************************************)
(* The two date stages on one table: convert_date_columns, then            *)
(* create_week_column on 'created'.                                        *)
(***************************************************************************)

\* the most rows a table drawn for the date stages has
MaxDateRows == 2

\* the cells of the date column as read from the file: "naive" holds texts
\* without offsets, "aware" texts with offsets
DtCells(kind) ==
    IF kind = "aware"
    THEN {NaN, <<"not a date">>} \cup {<<t>> : t \in AwareTexts}
    ELSE {NaN, <<"not a date">>} \cup {<<t>> : t \in (DOMAIN DateTexts) \ AwareTexts}

DtStatus == {<<"Done">>, <<"Open">>}

\* a table of a 'created' column (unless absent) and a 'status' column
DtTables ==
    {[columns |-> << <<"created">>, <<"status">> >>,
      dtypes  |-> <<"object", "object">>,
      rows    |-> rows] :
        rows \in UNION {[1..n -> {<<c, st>> : c \in DtCells("naive"), st \in DtStatus}] :
                           n \in 0..MaxDateRows}}
    \cup
    {[columns |-> << <<"created">>, <<"status">> >>,
      dtypes  |-> <<"object", "object">>,
      rows    |-> rows] :
        rows \in UNION {[1..n -> {<<c, st>> : c \in DtCells("aware"), st \in DtStatus}] :
                           n \in 0..MaxDateRows}}
    \cup
    {[columns |-> << <<"status">> >>,
      dtypes  |-> <<"object">>,
      rows    |-> rows] :
        rows \in UNION {[1..n -> {<<st>> : st \in DtStatus}] : n \in 0..MaxDateRows}}

\* the date_columns arguments drawn: a list that names 'created', a list
\* that names no column of the table, and the empty list
DtTargetLists == {DateColumns.epics_df, DateColumns.utilization_df, <<>>}

DtIdle ==
    /\ dt_pc = "idle"
    /\ dt_in = NoTable
    /\ dt_targets = <<>>
    /\ dt_out = NoTable
    /\ wk_out = NoTable
    /\ wk_printed = ""

DtInit ==
    /\ dt_pc = "convert"
    /\ dt_in \in DtTables
    /\ dt_targets \in DtTargetLists
    /\ dt_out = NoTable
    /\ wk_out = NoTable
    /\ wk_printed = ""

\* df = convert_date_columns(df, date_columns)
ConvertDates ==
    /\ dt_pc = "convert"
    /\ dt_out' = ConvertDateColumns(dt_in, dt_targets)
    /\ dt_pc' = "week"
    /\ UNCHANGED <<dt_in, dt_targets, wk_out, wk_printed>>
    /\ UNCHANGED <<colVars, mvVars, loadVars, mainVars, corrVars, mxVars>>

\* df = create_week_column(df, 'created')
CreateWeek ==
    /\ dt_pc = "week"
    /\ wk_out' = CreateWeekColumn(dt_out, WeekColumnOf.epics_df)
    /\ wk_printed' = CreateWeekMessage(dt_out, WeekColumnOf.epics_df)
    /\ dt_pc' = "returned"
    /\ UNCHANGED <<dt_in, dt_targets, dt_out>>
    /\ UNCHANGED <<colVars, mvVars, loadVars, mainVars, corrVars, mxVars>>

(***************************************************************************)
(* The correlation matrix of a joined weekly table: lines 262-263.         *)
(***************************************************************************)

\* the most rows (weeks) a joined table drawn has
MaxMatrixRows == 3

\* joined tables of a summed and an averaged measure, the k-th row keyed by
\* the k-th week of 2025; an average is null when its group held no value
MxTables ==
    {[columns |-> <<YearWeek, MaintenanceAgg[1].column, UtilizationAgg[2].column>>,
      dtypes  |-> <<"object", "number", "number">>,
      rows    |-> [k \in DOMAIN cells |->
                      <<<<ToString(202500 + k)>>>> \o cells[k]]] :
        cells \in UNION {[1..n -> {<<hours, used>> :
                                      hours \in {<<1, 1>>, <<2, 1>>, <<3, 1>>},
                                      used  \in {NaN, <<1, 2>>, <<1, 1>>}}] :
                            n \in 0..MaxMatrixRows}}

MxIdle == mx_pc = "idle" /\ mx_in = NoTable /\ mx_out = NoTable

MxInit == mx_pc = "call" /\ mx_in \in MxTables /\ mx_out = NoTable

\* correlation_matrix = correlation_df[numeric_cols].corr()
ComputeMatrix ==
    /\ mx_pc = "call"
    /\ mx_out' = Corr(mx_in)
    /\ mx_pc' = "returned"
    /\ UNCHANGED mx_in
    /\ UNCHANGED <<colVars, mvVars, loadVars, mainVars, corrVars, dtVars>>

(***************************************************************************)
(* The specifications.                                                     *)
(***************************************************************************)

\* one run of main
Init == MainInit /\ ColIdle /\ MvIdle /\ LoadIdle /\ CorrIdle /\ DtIdle /\ MxIdle

Next ==
    \/ CreateOutputDirectory
    \/ LoadFiles
    \/ CleanStage
    \/ ConvertStage
    \/ MissingStage
    \/ WeekStage
    \/ Correlate
    \/ PlotCorrelationMatrix
    \/ ExportCsv

Spec == Init /\ [][Next]_vars

\* clean_column_names on every column name, applied again to its own result
InitColumns == ColInit /\ MvIdle /\ LoadIdle /\ MainIdle /\ CorrIdle /\ DtIdle /\ MxIdle

NextColumns == CleanColumnNames

SpecColumns == InitColumns /\ [][NextColumns]_vars

\* handle_missing_values on every table and strategy
InitMissing == MvInit /\ ColIdle /\ LoadIdle /\ MainIdle /\ CorrIdle /\ DtIdle /\ MxIdle

NextMissing == HandleMissing

SpecMissing == InitMissing /\ [][NextMissing]_vars

\* load_csv_files on every directory listing
InitLoad == LoadInit /\ ColIdle /\ MvIdle /\ MainIdle /\ CorrIdle /\ DtIdle /\ MxIdle

NextLoad == FindFiles \/ RaiseFileNotFound \/ ReadCsvFiles

SpecLoad == InitLoad /\ [][NextLoad]_vars

\* the two bucketing calls and calculate_correlation_metrics on every pair of
\* typed tables
InitCorr == CorrInit /\ ColIdle /\ MvIdle /\ LoadIdle /\ MainIdle /\ DtIdle /\ MxIdle

NextCorr == WeekMaintenance \/ WeekUtilization \/ CalculateCorrelation

SpecCorr == InitCorr /\ [][NextCorr]_vars

\* convert_date_columns and create_week_column on every table and target list
InitDates == DtInit /\ ColIdle /\ MvIdle /\ LoadIdle /\ MainIdle /\ CorrIdle /\ MxIdle

NextDates == ConvertDates \/ CreateWeek

SpecDates == InitDates /\ [][NextDates]_vars

\* the correlation matrix of every joined weekly table
InitMatrix == MxInit /\ ColIdle /\ MvIdle /\ LoadIdle /\ MainIdle /\ CorrIdle /\ DtIdle

NextMatrix == ComputeMatrix

SpecMatrix == InitMatrix /\ [][NextMatrix]_vars

(***************************************************************************)
(* Properties of the driver, under Spec.                                   *)
(***************************************************************************)

Finished == pc \in {"done", "raised"}

\* a table reached the correlator without its Week Key column
WeekKeyMissing ==
    /\ Len(calls) = Len(StageProgram)
    /\ \/ ~HasColumn(frames.maintenance_df, YearWeek)
       \/ ~HasColumn(frames.utilization_df, YearWeek)

ProcessedFiles == {CsvFiles[1], CsvFiles[2], CsvFiles[3]}

InWritten(file) == \E k \in 1..Len(written) : written[k] = file

InPrinted(message) == \E k \in 1..Len(printed) : printed[k] = message

\* the try block of the export was entered
ExportReached ==
    CsvWritten # <<>> \/ InPrinted("Error exporting processed data")

\* C1: when the maintenance or the utilization table reaches the correlator
\* without a Week Key column, only the correlation is skipped: the run ends
\* by returning and the three processed tables are written (unless a write
\* itself fails).
C1_OnlyCorrelationSkipped ==
    (Finished /\ WeekKeyMissing) =>
        /\ pc = "done"
        /\ \/ \A file \in ProcessedFiles : InWritten(file)
           \/ InPrinted("Error exporting processed data")

\* C2: a run whose three source files were found and loaded is never
\* aborted before the export of the processed tables, whatever a stage or
\* the correlation does.
C2_LoadedRunReachesExport ==
    (Finished /\ load_returned = "frames") => (pc = "done" /\ ExportReached)

\* C3: main never ends with an exception raised past it.
C3_NoUncaughtException == pc # "raised"

\* C4: when a source file is not found, load_csv_files returns no tables and
\* the run stops there: no stage is called and no output file is written.
C4_MissingSourceAborts ==
    (main_missing # <<>> /\ load_returned # "unset") =>
        /\ load_returned = "none"
        /\ frames = NoFrames
        /\ pc = "done"
        /\ calls = <<>>
        /\ correlation = "unset"
        /\ written = <<>>

\* a run stopped by a missing source file, the output directory in place
C4_Witness ==
    /\ pc = "done"
    /\ output_path = OutputDir
    /\ Len(main_missing) = 2
    /\ InPrinted("File not found")

\* the Week Keys in the rows of a table
KeysOf(df) == {df.rows[r][IndexOf(df, YearWeek)] : r \in 1..Len(df.rows)}

\* the correlator was called with two tables it can aggregate, and no Week
\* Key occurs in both
NoSharedWeek ==
    /\ correlation # "unset"
    /\ HasColumn(frames.maintenance_df, YearWeek)
    /\ HasColumn(frames.utilization_df, YearWeek)
    /\ CanAggregate(frames.maintenance_df, MaintenanceAggColumns)
    /\ CanAggregate(frames.utilization_df, UtilizationAggColumns)
    /\ KeysOf(frames.maintenance_df) \cap KeysOf(frames.utilization_df) = {}

\* C15: when the two weekly aggregates share no Week Key, the correlation
\* stage does not raise and the run goes on: the joined table is returned with
\* its columns and no row, and the processed tables and the empty joined
\* table are written (unless a write itself fails).
C15_EmptyJoinGoesOn ==
    NoSharedWeek =>
        /\ correlation = "correlation_df, correlation_matrix"
        /\ correlation_df.columns # <<>>
        /\ correlation_df.rows = <<>>
        /\ pc \in {"plot", "export", "done"}
        /\ pc = "done" =>
            \/ \A k \in 1..Len(CsvFiles) : InWritten(CsvFiles[k])
            \/ InPrinted("Error exporting processed data")

\* a run of disjoint weeks that wrote the four tables
C15_Witness ==
    /\ NoSharedWeek
    /\ pc = "done"
    /\ \A k \in 1..Len(CsvFiles) : InWritten(CsvFiles[k])
    /\ correlation_df.rows = <<>>

\* the stages called on a dataset so far, in order
StagesOf(dataset) ==
    LET of == SelectSeq(calls, LAMBDA call : call.dataset = dataset)
    IN  [k \in 1..Len(of) |-> of[k].stage]

\* s is the beginning of t
IsPrefix(s, t) == Len(s) <= Len(t) /\ s = SubSeq(t, 1, Len(s))

\* C21: each of the three datasets passes through the stages in the order
\* normalize, coerce types, resolve missing values, bucket by week, no stage
\* twice or out of order, and the correlation starts only after the
\* maintenance and the utilization dataset have been bucketed.
C21_StagesInOrder ==
    LET order == <<"clean_column_names", "convert_date_columns",
                   "handle_missing_values", "create_week_column">>
    IN  /\ \A d \in {"epics_df", "maintenance_df", "utilization_df"} :
              IsPrefix(StagesOf(d), order)
        /\ correlation # "unset" =>
              StagesOf("maintenance_df") = order /\ StagesOf("utilization_df") = order

\* the correlation was called, after the four stages of each dataset
C21_Witness ==
    /\ correlation # "unset"
    /\ StagesOf("epics_df") = StageNames
    /\ Len(calls) = 12

C23_IoFailureCaught ==
    /\ InPrinted("Error creating output directory") =>
          /\ output_path = "None"
          /\ pc = "done"
          /\ load_returned = "unset"
          /\ calls = <<>>
          /\ written = <<>>
    /\ (pc # "start" /\ output_path = "None") => InPrinted("Error creating output directory")
    /\ InPrinted("Error plotting correlation matrix") => pc \in {"export", "done"}
    /\ InPrinted("Error exporting processed data") => pc = "done"
    /\ pc = "raised" =>
          \A message \in {"Error creating output directory",
                           "Error plotting correlation matrix",
                           "Error exporting processed data"} : ~InPrinted(message)

\* the heatmap could not be written, two tables were, and the third could not
C23_Witness ==
    /\ pc = "done"
    /\ InPrinted("Error plotting correlation matrix")
    /\ InPrinted("Error exporting processed data")
    /\ written = <<CsvFiles[1], CsvFiles[2]>>

\* C24: whenever correlation_data.csv is written, it holds the joined
\* weekly table (one row for each Week Key of both tables, the aggregated
\* maintenance and utilization columns side by side) and never the
\* correlation matrix; the matrix goes to the heatmap only, and to no CSV.
C24_CorrelationCsvIsJoinedTable ==
    /\ CsvFiles[4] \in DOMAIN file_content =>
          LET content == file_content[CsvFiles[4]]
              shared  == KeysOf(frames.maintenance_df) \cap KeysOf(frames.utilization_df)
          IN  /\ content = correlation_df
              /\ content # correlation_matrix
              /\ content.columns =
                     << YearWeek, <<"SumMaintenance_Hours">>,
                        <<"Total_Maintenance_Tickets_By_Week">>,
                        <<"Maintenance_Time_Allocation_Percentage">>,
                        <<"SumRuntime_duration__mins_">>, <<"Machine_Utilization__">>,
                        <<"Idle_Percentage__">>, <<"Desktop_Flow_Success_Rate_Goal">>,
                        <<"Desktop_Run_Percent_Success">> >>
              /\ KeysOf(content) = shared
              /\ Len(content.rows) = Cardinality(shared)
    /\ \A file \in DOMAIN file_content :
          IF file = Heatmap THEN file_content[file] = correlation_matrix
          ELSE file_content[file] # correlation_matrix

\* the heatmap and the four tables written, the joined table of one week
C24_Witness ==
    /\ pc = "done"
    /\ DOMAIN file_content = {Heatmap} \cup {CsvFiles[k] : k \in 1..4}
    /\ Len(file_content[CsvFiles[4]].rows) = 1
    /\ Len(correlation_matrix.rows) = 8

\* the raw table of a dataset after the first n of its four stages
AfterStages(dataset, n) ==
    LET cleaned  == RenameColumns(raw[dataset])
        typed    == ConvertDateColumns(cleaned, DateColumns[dataset])
        imputed  == HandleMissingValues(typed, "median")
        bucketed == CreateWeekColumn(imputed, WeekColumnOf[dataset])
    IN  <<raw[dataset], cleaned, typed, imputed, bucketed>>[n + 1]

\* C25: up to the correlation the three datasets are processed
\* independently: the processed table of a dataset is a function of the raw
\* table of that dataset alone, so runs that agree on a raw table agree on
\* its processed table, whatever the other two raw tables are.
C25_DatasetsIndependent ==
    load_returned = "frames" =>
        /\ \A d \in DOMAIN frames : frames[d] = AfterStages(d, Len(StagesOf(d)))
        /\ \A k \in 1..3 :
              CsvFiles[k] \in DOMAIN file_content =>
                  file_content[CsvFiles[k]] =
                      AfterStages(<<"epics_df", "maintenance_df", "utilization_df">>[k], 4)

\* the epics table bucketed by week in a run whose maintenance table has no
\* date column
C25_Witness ==
    /\ Len(calls) = 12
    /\ HasColumn(frames.epics_df, YearWeek)
    /\ ~HasColumn(raw.maintenance_df, Bracketed(MaintenanceTable, "created"))
    /\ ~HasColumn(frames.maintenance_df, YearWeek)
    /\ HasColumn(frames.utilization_df, YearWeek)

\* C27: the output directory is created before the source files are looked
\* up, so a run that stops because a source file is missing leaves the
\* directory in existence, created if it was not there, with no output file
\* written by the run.
C27_DirectoryBeforeLookup ==
    /\ load_returned # "unset" => (dir_exists /\ output_path = OutputDir)
    /\ (main_missing # <<>> /\ load_returned # "unset") =>
          /\ dir_exists
          /\ written = <<>>
          /\ DOMAIN file_content = {}

\* a run that made the directory and stopped for one missing file
C27_Witness ==
    /\ pc = "done"
    /\ printed = <<"Created output directory", "File not found">>
    /\ Len(main_missing) = 1
    /\ dir_exists
    /\ written = <<>>

\* C28: the heatmap is attempted first and its failure does not prevent the
\* export; the four CSVs are then written in the order processed_epics,
\* processed_maintenance, processed_utilization, correlation_data, and the
\* first write that fails stops the export: a file written by this run
\* implies every earlier file of that order written by this run.
C28_ExportOrder ==
    LET png   == "correlation_matrix.png"
        order == <<"processed_epics.csv", "processed_maintenance.csv",
                   "processed_utilization.csv", "correlation_data.csv">>
        csvs  == SelectSeq(written, LAMBDA file : file # png)
        tried == InPrinted("Error exporting processed data") \/ csvs # <<>>
    IN  /\ IsPrefix(csvs, order)
        /\ InWritten(png) => (written[1] = png /\ Len(csvs) = Len(written) - 1)
        /\ tried => (InWritten(png) \/ InPrinted("Error plotting correlation matrix"))
        /\ (pc = "done" /\ InPrinted("Error plotting correlation matrix")) => tried
        /\ InPrinted("Error exporting processed data") => (pc = "done" /\ Len(csvs) < 4)
        /\ (pc = "done" /\ csvs # <<>> /\ Len(csvs) < 4) =>
              InPrinted("Error exporting processed data")

\* the heatmap failed and the four tables were written
C28_Witness ==
    /\ pc = "done"
    /\ InPrinted("Error plotting correlation matrix")
    /\ written = CsvFiles
    /\ ~InPrinted("Error exporting processed data")

(***************************************************************************)
(* Properties of load_csv_files, under SpecLoad.                           *)
(***************************************************************************)

LogicalNames == {EpicsName, MaintenanceName, UtilizationName}

\* the logical names whose slot the lookup filled
FoundNames ==
    {name \in LogicalNames :
        \/ name = EpicsName /\ epics_file # NoFile
        \/ name = MaintenanceName /\ maintenance_file # NoFile
        \/ name = UtilizationName /\ utilization_file # NoFile}

\* missing_files names exactly the logical names not found, each once
ReportsComplement ==
    /\ {missing_files[k] : k \in 1..Len(missing_files)} = LogicalNames \ FoundNames
    /\ Len(missing_files) = Cardinality(LogicalNames \ FoundNames)

TestOrder == <<EpicsName, MaintenanceName, UtilizationName>>

\* the entry ends in ".csv" and the k-th substring is the first it contains
FillsSlot(file, k) ==
    /\ file[Len(file)] = ".csv"
    /\ \E i \in 1..Len(file) : file[i] = TestOrder[k]
    /\ \A j \in 1..(k - 1) : \A i \in 1..Len(file) : file[i] # TestOrder[j]

\* the entry enumerated last among those that fill the k-th slot, if any
LastFilling(k) ==
    LET at == {i \in 1..Len(listing) : FillsSlot(listing[i], k)}
    IN  IF at = {} THEN NoFile
        ELSE listing[CHOOSE i \in at : \A j \in at : j <= i]

\* C29: in load_csv_files each directory entry fills at most one slot: only
\* names ending in ".csv" count, a name goes to the first of the epics,
\* maintenance and utilization substrings it contains, and of several
\* entries matching one slot the one enumerated last is the one loaded.
C29_SlotFilling ==
    load_pc # "find" =>
        /\ epics_file = LastFilling(1)
        /\ maintenance_file = LastFilling(2)
        /\ utilization_file = LastFilling(3)
        /\ \A i \in 1..Len(listing) :
              Cardinality({slot \in {"e", "m", "u"} :
                  listing[i] = (CASE slot = "e" -> epics_file
                                  [] slot = "m" -> maintenance_file
                                  [] OTHER -> utilization_file)}) <= 1
        /\ \A slot \in {epics_file, maintenance_file, utilization_file} :
              slot # NoFile => slot[Len(slot)] = ".csv"

\* two entries hold the epics substring, the later one the maintenance
\* substring as well, and a spreadsheet holds the utilization substring
C29_Witness ==
    /\ load_pc = "done"
    /\ Len(listing) = 3
    /\ listing[1] = <<EpicsName, ".csv">>
    /\ listing[2] = <<MaintenanceName, UtilizationName, ".xlsx">>
    /\ listing[3] = <<EpicsName, MaintenanceName, ".csv">>
    /\ epics_file = listing[3]
    /\ maintenance_file = NoFile
    /\ utilization_file = NoFile

(***************************************************************************)
(* Properties of clean_column_names, under SpecColumns.                    *)
(***************************************************************************)

HasSymbol(name, symbol) == \E k \in 1..Len(name) : name[k] = symbol

\* the name with every occurrence of one symbol taken out
Without(name, symbol) == SelectSeq(name, LAMBDA x : x # symbol)

\* what follows the last occurrence of a symbol that occurs in the name
AfterLast(name, symbol) ==
    LET k == CHOOSE i \in 1..Len(name) :
                 name[i] = symbol /\ \A j \in (i + 1)..Len(name) : name[j] # symbol
    IN  [i \in 1..(Len(name) - k) |-> name[k + i]]

\* the name without its last symbol when that is a closing bracket
TrailingBracketRemoved(name) ==
    IF name # <<>> /\ name[Len(name)] = RBracket
    THEN [i \in 1..(Len(name) - 1) |-> name[i]]
    ELSE name

\* C6: normalizing a normalized column name again changes nothing.
C6_Idempotent == Len(passes) >= 3 => passes[3] = passes[2]

\* C7: a normalized column name holds neither table-qualifier prefix and
\* never both an opening and a closing bracket.
C7_NoQualifierLeft ==
    Len(passes) >= 2 =>
        /\ ~Contains(passes[2], UtilizationPrefix)
        /\ ~Contains(passes[2], MaintenancePrefix)
        /\ ~(HasSymbol(passes[2], LBracket) /\ HasSymbol(passes[2], RBracket))

C9_NoBracketsUnchanged ==
    (Len(passes) >= 2 /\ ~HasSymbol(passes[1], LBracket) /\ ~HasSymbol(passes[1], RBracket)) =>
        passes[2] = passes[1]

\* a name that holds a qualifier text but no bracket has been normalized
C9_Witness ==
    /\ Len(passes) >= 2
    /\ passes[1] = <<MaintenanceTable, "created">>
    /\ passes[2] = passes[1]

(***************************************************************************)
(* Properties of handle_missing_values, under SpecMissing.                 *)
(***************************************************************************)

Imputing == mv_pc = "returned" /\ mv_strategy \in {"median", "mean"}

NoNullIn(df, i) == \A r \in 1..Len(df.rows) : ~IsNull(df.rows[r][i])

AllNullIn(df, i) == \A r \in 1..Len(df.rows) : IsNull(df.rows[r][i])

\* C10 as stated: after median or mean imputation no numeric column and no
\* text column holds a null.
C10_NoNullLeft ==
    Imputing =>
        \A i \in Indices(mv_out) :
            mv_out.dtypes[i] \in {"number", "object"} => NoNullIn(mv_out, i)

\* C10, amended: after median or mean imputation no text column holds a
\* null, and no numeric column that had a non-null value holds a null; a
\* numeric column that was entirely null is still entirely null.
C10_NoNullLeftUnlessAllNull ==
    Imputing =>
        \A i \in Indices(mv_out) :
            /\ mv_out.dtypes[i] = "object" => NoNullIn(mv_out, i)
            /\ mv_out.dtypes[i] = "number" =>
                  IF AllNullIn(mv_in, i) THEN AllNullIn(mv_out, i) ELSE NoNullIn(mv_out, i)

\* a table with a gap in its numeric and in its text column has been filled
C10_Witness ==
    /\ Imputing
    /\ Len(mv_in.rows) = 3
    /\ IsNull(mv_in.rows[1][1]) /\ ~IsNull(mv_in.rows[2][1])
    /\ IsNull(mv_in.rows[2][2])
    /\ mv_out.rows[1][1] = <<3, 2>>
    /\ mv_out.rows[2][2] = Unknown

\* the positions of the rows of mv_in that hold no null
CompleteRows ==
    {r \in 1..Len(mv_in.rows) : \A i \in Indices(mv_in) : mv_in.rows[r][i] # NaN}

\* the k-th of them, counted from the top
KthComplete(k) ==
    CHOOSE r \in CompleteRows : Cardinality({q \in CompleteRows : q <= r}) = k

\* C18: with strategy 'drop' the table returned holds exactly the rows of the
\* input that have no null in any column, the timestamp columns included,
\* in their original order.
C18_DropKeepsCompleteRows ==
    (mv_pc = "returned" /\ mv_strategy = "drop") =>
        /\ mv_out.columns = mv_in.columns
        /\ mv_out.dtypes = mv_in.dtypes
        /\ Len(mv_out.rows) = Cardinality(CompleteRows)
        /\ \A k \in 1..Len(mv_out.rows) : mv_out.rows[k] = mv_in.rows[KthComplete(k)]

\* a row dropped for its null timestamp alone, between two rows kept
C18_Witness ==
    /\ mv_pc = "returned"
    /\ mv_strategy = "drop"
    /\ mv_in.rows = << << <<2, 1>>, <<"Done">>, <<2025, 1, 13>> >>,
                       << <<1, 1>>, <<"Done">>, NaN >>,
                       << <<1, 1>>, <<"Done">>, <<2025, 1, 13>> >> >>
    /\ mv_out.rows = << << <<2, 1>>, <<"Done">>, <<2025, 1, 13>> >>,
                        << <<1, 1>>, <<"Done">>, <<2025, 1, 13>> >> >>

\* C19: with strategy 'median' or 'mean' every timestamp column is returned
\* as it was: its nulls stay null, nothing is filled in and no "Unknown".
C19_TimestampsNotImputed ==
    (mv_pc = "returned" /\ Imputing) =>
        /\ Len(mv_out.rows) = Len(mv_in.rows)
        /\ \A i \in Indices(mv_in) :
            mv_in.dtypes[i] = "datetime64" =>
                /\ mv_out.dtypes[i] = "datetime64"
                /\ Column(mv_out, i) = Column(mv_in, i)

\* a null timestamp left null in a row whose other nulls were filled
C19_Witness ==
    /\ mv_pc = "returned"
    /\ mv_strategy = "mean"
    /\ Len(mv_in.rows) = 2
    /\ mv_in.rows[1] = << NaN, NaN, NaN >>
    /\ mv_in.rows[2] = << <<2, 1>>, <<"Done">>, <<2025, 1, 13>> >>
    /\ mv_out.rows[1] = << <<2, 1>>, Unknown, NaN >>

\* the cells that differ between the input and the table returned
ChangedCells ==
    {<<r, i>> \in (1..Len(mv_in.rows)) \X Indices(mv_in) :
        mv_out.rows[r][i] # mv_in.rows[r][i]}

\* C30: with strategy 'median' or 'mean' handle_missing_values keeps the
\* number and order of the rows and the set of columns and changes no cell
\* that was non-null: only null cells of a numeric or text column may differ.
C30_OnlyNullCellsChange ==
    Imputing =>
        /\ mv_out.columns = mv_in.columns
        /\ mv_out.dtypes = mv_in.dtypes
        /\ Len(mv_out.rows) = Len(mv_in.rows)
        /\ \A r \in 1..Len(mv_in.rows) :
              /\ DOMAIN mv_out.rows[r] = DOMAIN mv_in.rows[r]
              /\ \A i \in Indices(mv_in) :
                    mv_in.rows[r][i] # <<>> => mv_out.rows[r][i] = mv_in.rows[r][i]
        /\ \A cell \in ChangedCells :
              /\ mv_in.rows[cell[1]][cell[2]] = <<>>
              /\ mv_in.dtypes[cell[2]] \in {"number", "object"}

\* three rows in their order, the null of the middle one filled with the
\* median of the two values around it, which stay as they were
C30_Witness ==
    /\ mv_pc = "returned"
    /\ mv_strategy = "median"
    /\ mv_in.rows = << << <<2, 1>>, <<"Done">>, <<2025, 1, 13>> >>,
                       << NaN, NaN, NaN >>,
                       << <<1, 1>>, <<"Done">>, <<2025, 1, 13>> >> >>
    /\ mv_out.rows = << << <<2, 1>>, <<"Done">>, <<2025, 1, 13>> >>,
                        << <<3, 2>>, Unknown, NaN >>,
                        << <<1, 1>>, <<"Done">>, <<2025, 1, 13>> >> >>
    /\ ChangedCells = {<<2, 1>>, <<2, 2>>}

(***************************************************************************)
(* Properties of the correlator, under SpecCorr.                           *)
(***************************************************************************)

\* the Week Keys that create_week_column gave the rows whose date is null
NullDateKeys(df, date_column) ==
    {df.rows[r][IndexOf(df, YearWeek)] :
        r \in {q \in 1..Len(df.rows) : IsNull(df.rows[q][IndexOf(df, date_column)])}}

\* C11: a row whose designated timestamp is null takes part in no week-keyed
\* aggregation: its Week Key forms no group, so no row of a weekly aggregate
\* and no row of the joined table is derived from it.
C11_NullDateRowsInNoAggregate ==
    corr_pc = "returned" =>
        LET m == NullDateKeys(corr_frames.maintenance_df, WeekColumnOf.maintenance_df)
            u == NullDateKeys(corr_frames.utilization_df, WeekColumnOf.utilization_df)
        IN  /\ KeysOf(maintenance_weekly) \cap m = {}
            /\ KeysOf(utilization_weekly) \cap u = {}
            /\ KeysOf(corr_joined) \cap (m \cup u) = {}

\* C13: the joined weekly table has exactly one row for every Week Key that
\* occurs in both weekly aggregates, and no other row.
C13_JoinIsIntersection ==
    corr_pc = "returned" =>
        LET shared == KeysOf(maintenance_weekly) \cap KeysOf(utilization_weekly)
        IN  /\ KeysOf(corr_joined) = shared
            /\ Len(corr_joined.rows) = Cardinality(shared)

\* a join that keeps a shared week and drops a week of either side
C13_Witness ==
    /\ corr_pc = "returned"
    /\ Len(corr_joined.rows) = 1
    /\ KeysOf(maintenance_weekly) \ KeysOf(utilization_weekly) # {}
    /\ KeysOf(utilization_weekly) \ KeysOf(maintenance_weekly) # {}

\* the sum of column i over the rows of df at the positions in rows
RECURSIVE SumOver(_, _, _)
SumOver(df, i, rows) ==
    IF rows = {} THEN <<0, 1>>
    ELSE LET r == CHOOSE q \in rows : TRUE
         IN  NumAdd(df.rows[r][i], SumOver(df, i, rows \ {r}))

\* weekly has one row for each distinct Week Key of df, and its column col
\* holds the sum of col over exactly the rows of df with that key
OneRowPerKeyWithSum(weekly, df, col) ==
    /\ KeysOf(weekly) = KeysOf(df)
    /\ Len(weekly.rows) = Cardinality(KeysOf(df))
    /\ \A w \in 1..Len(weekly.rows) :
        weekly.rows[w][IndexOf(weekly, col)] =
            SumOver(df, IndexOf(df, col),
                    {r \in 1..Len(df.rows) :
                        df.rows[r][IndexOf(df, YearWeek)] =
                            weekly.rows[w][IndexOf(weekly, YearWeek)]})

\* C14: each weekly aggregate has exactly one row per distinct Week Key of
\* its input table, and its summed column (maintenance hours, runtime
\* duration) is the sum over exactly the input rows with that key.
C14_OneRowPerKeyWithSum ==
    corr_pc = "returned" =>
        /\ OneRowPerKeyWithSum(maintenance_weekly, corr_frames.maintenance_df,
                               MaintenanceAgg[1].column)
        /\ OneRowPerKeyWithSum(utilization_weekly, corr_frames.utilization_df,
                               UtilizationAgg[1].column)

\* two maintenance rows of one week, of 1 and 2 hours, summed to 3, and two
\* utilization rows of two weeks
C14_Witness ==
    /\ corr_pc = "returned"
    /\ Len(corr_frames.maintenance_df.rows) = 2
    /\ Len(maintenance_weekly.rows) = 1
    /\ maintenance_weekly.rows[1][IndexOf(maintenance_weekly, MaintenanceAgg[1].column)]
           = <<3, 1>>
    /\ Len(utilization_weekly.rows) = 2

(***************************************************************************)
(* Properties of the two date stages, under SpecDates.                     *)
(***************************************************************************)

Created == WeekColumnOf.epics_df

\* create_week_column found 'created' typed as a timestamp and bucketed it
Bucketed == dt_pc = "returned" /\ wk_printed = "Created week columns based on"

\* the ISO year and week of a day, from the definition: the week of a day
\* runs from its Monday to its Sunday, belongs to the year that holds its
\* Thursday, and is numbered by the Thursdays of that year
IsoByThursday(ts) ==
    LET thursday == Ordinal(ts[1], ts[2], ts[3]) - IsoWeekday(ts[1], ts[2], ts[3]) + 4
        year     == CHOOSE y \in (ts[1] - 1)..(ts[1] + 1) :
                        Ordinal(y, 1, 1) <= thursday /\ thursday <= Ordinal(y, 12, 31)
    IN  [year |-> year, week |-> ((thursday - Ordinal(year, 1, 1)) \div 7) + 1]

\* the numbers 0 to 99 in two digits
TwoDigits(n) == IF n < 10 THEN "0" \o ToString(n) ELSE ToString(n)

\* the Week Keys of some days, by the calendar
KnownWeekKeys ==
    (<<2025, 1, 13>> :> "202503") @@ (<<2025, 1, 20>> :> "202504") @@
    (<<2024, 12, 30>> :> "202501") @@ (<<2025, 12, 29>> :> "202601") @@
    (<<2021, 1, 3>> :> "202053") @@ (<<2027, 1, 1>> :> "202653")

\* C12: for every row whose designated timestamp is not null, the Week Key
\* is the four-digit ISO year followed by the ISO week in two digits, six
\* characters in all; the year is the ISO year, not the calendar year.
C12_WeekKeyIsIsoYearWeek ==
    Bucketed =>
        \A r \in 1..Len(dt_out.rows) :
            LET ts  == dt_out.rows[r][IndexOf(dt_out, Created)]
                key == wk_out.rows[r][IndexOf(wk_out, YearWeek)]
            IN  ~IsNull(ts) =>
                    /\ key = <<ToString(IsoByThursday(ts).year)
                               \o TwoDigits(IsoByThursday(ts).week)>>
                    /\ Len(key[1]) = 6
                    /\ ts \in DOMAIN KnownWeekKeys => key[1] = KnownWeekKeys[ts]

\* a day of calendar year 2024 in ISO week 1 of 2025, and a day of calendar
\* year 2021 in ISO week 53 of 2020
C12_Witness ==
    /\ Bucketed
    /\ Len(wk_out.rows) = 2
    /\ dt_out.rows[1][IndexOf(dt_out, Created)] = <<2024, 12, 30>>
    /\ wk_out.rows[1][IndexOf(wk_out, YearWeek)] = <<"202501">>
    /\ dt_out.rows[2][IndexOf(dt_out, Created)] = <<2021, 1, 3>>
    /\ wk_out.rows[2][IndexOf(wk_out, YearWeek)] = <<"202053">>

Converted == dt_pc \in {"week", "returned"}

\* the names of date_columns
Targets == {dt_targets[k] : k \in 1..Len(dt_targets)}

\* the texts that are dates
Parseable == DOMAIN DateTexts

\* C16: convert_date_columns replaces every value of a target column that
\* does not parse as a date by null, without raising, and returns the same
\* number of rows in the same order.
C16_UnparseableBecomesNull ==
    Converted =>
        /\ Len(dt_out.rows) = Len(dt_in.rows)
        /\ \A r \in 1..Len(dt_in.rows), i \in Indices(dt_in) :
            IF dt_in.columns[i] \in Targets
            THEN IF IsNull(dt_in.rows[r][i]) \/ dt_in.rows[r][i][1] \notin Parseable
                 THEN IsNull(dt_out.rows[r][i])
                 ELSE dt_out.rows[r][i] = DateTexts[dt_in.rows[r][i][1]]
            ELSE dt_out.rows[r][i] = dt_in.rows[r][i]

\* a text that is no date before a text that is one, in rows told apart by
\* their status
C16_Witness ==
    /\ Converted
    /\ Created \in Targets
    /\ Len(dt_in.rows) = 2
    /\ dt_in.rows[1] = << <<"not a date">>, <<"Open">> >>
    /\ dt_in.rows[2] = << <<"2025-01-13">>, <<"Done">> >>
    /\ dt_out.rows[1] = << NaN, <<"Open">> >>
    /\ dt_out.rows[2] = << <<2025, 1, 13>>, <<"Done">> >>

\* C17: a name of date_columns that is no column of the table is skipped
\* without error: no column is added, and the columns that are no target are
\* returned as they were.
C17_AbsentTargetsSkipped ==
    Converted =>
        /\ dt_out.columns = dt_in.columns
        /\ Len(dt_out.rows) = Len(dt_in.rows)
        /\ \A i \in Indices(dt_in) :
            dt_in.columns[i] \notin Targets =>
                /\ dt_out.dtypes[i] = dt_in.dtypes[i]
                /\ Column(dt_out, i) = Column(dt_in, i)

\* a table with rows and a list of which some names are columns and some not
C17_Witness ==
    /\ Converted
    /\ Len(dt_in.rows) = 2
    /\ Created \in Targets
    /\ HasColumn(dt_in, Created)
    /\ \E col \in Targets : ~HasColumn(dt_in, col)
    /\ dt_out.dtypes[IndexOf(dt_out, Created)] = "datetime64"

\* create_week_column cannot use the date column: it is not there, or its
\* dtype is not datetime64
NotBucketable ==
    \/ ~HasColumn(dt_out, Created)
    \/ dt_out.dtypes[IndexOf(dt_out, Created)] # "datetime64"

\* C20: when the designated column is absent or is not typed as a timestamp,
\* create_week_column returns a table equal to its input, with no Year, Week
\* or YearWeek column, prints a warning and does not raise.
C20_NoDateColumnNoBuckets ==
    (dt_pc = "returned" /\ NotBucketable) =>
        /\ wk_out = dt_out
        /\ ~HasColumn(wk_out, <<"Year">>)
        /\ ~HasColumn(wk_out, <<"Week">>)
        /\ ~HasColumn(wk_out, YearWeek)
        /\ wk_printed = IF HasColumn(dt_out, Created)
                        THEN "is not in datetime format"
                        ELSE "not found in DataFrame"

\* a column of texts that was no target of the conversion
C20_Witness ==
    /\ dt_pc = "returned"
    /\ HasColumn(dt_out, Created)
    /\ dt_out.dtypes[IndexOf(dt_out, Created)] = "object"
    /\ Len(dt_out.rows) = 2
    /\ wk_printed = "is not in datetime format"

(***************************************************************************)
(* Properties of the correlation matrix, under SpecMatrix.                 *)
(***************************************************************************)

\* an entry of the matrix (sign(r) * r * r) stands for an r in [-1, 1]
InRange(entry) == ~IsNull(entry) /\ 0 - entry[2] <= entry[1] /\ entry[1] <= entry[2]

\* column i of mx_in takes two different values in the rows where column i
\* and column j both hold a value
Varies(i, j) ==
    \E r, q \in 1..Len(mx_in.rows) :
        /\ ~IsNull(mx_in.rows[r][i]) /\ ~IsNull(mx_in.rows[r][j])
        /\ ~IsNull(mx_in.rows[q][i]) /\ ~IsNull(mx_in.rows[q][j])
        /\ mx_in.rows[r][i] # mx_in.rows[q][i]

\* the matrix has a row and a column for each of the two numeric columns
MatrixShape ==
    /\ mx_out.columns = <<mx_in.columns[2], mx_in.columns[3]>>
    /\ Len(mx_out.rows) = 2
    /\ \A j \in 1..2 : Len(mx_out.rows[j]) = 2

Symmetric == \A j, k \in 1..2 : mx_out.rows[j][k] = mx_out.rows[k][j]

\* C26 as stated: every off-diagonal entry of the matrix lies in [-1, 1],
\* every diagonal entry of a column that is not constant is 1.0, and the
\* matrix is symmetric.
C26_EntriesInRange ==
    mx_pc = "returned" =>
        /\ MatrixShape
        /\ \A j, k \in 1..2 : j # k => InRange(mx_out.rows[j][k])
        /\ \A j \in 1..2 : Varies(j + 1, j + 1) => mx_out.rows[j][j] = <<1, 1>>
        /\ Symmetric

\* C26, amended: an entry of the matrix is undefined (NaN) exactly when, in
\* the rows where both of its columns hold a value, one of the two does not
\* vary (so with fewer than two such rows); every other off-diagonal entry
\* lies in [-1, 1], every other diagonal entry is 1.0, and the matrix is
\* symmetric.
C26_DefinedEntriesInRange ==
    mx_pc = "returned" =>
        /\ MatrixShape
        /\ \A j, k \in 1..2 :
              IF Varies(j + 1, k + 1) /\ Varies(k + 1, j + 1)
              THEN InRange(mx_out.rows[j][k])
              ELSE IsNull(mx_out.rows[j][k])
        /\ \A j \in 1..2 : Varies(j + 1, j + 1) => mx_out.rows[j][j] = <<1, 1>>
        /\ Symmetric

\* three weeks whose coefficient is the square root of 3/4
C26_Witness ==
    /\ mx_pc = "returned"
    /\ Column(mx_in, 2) = << <<1, 1>>, <<2, 1>>, <<3, 1>> >>
    /\ Column(mx_in, 3) = << <<1, 2>>, <<1, 2>>, <<1, 1>> >>
    /\ mx_out.rows = << << <<1, 1>>, <<3, 4>> >>, << <<3, 4>>, <<1, 1>> >> >>

=============================================================================
